---- MODULE Spec2Model ----
(***************************************************************************)
(* A model of the gin allocator family (nfrechette/gin):                   *)
(*   TLinearAllocator          include/gin/linear_allocator.h              *)
(*   TVMemLinearAllocator      include/gin/vmem_linear_allocator.h         *)
(*   TStackFrameAllocator      include/gin/stack_frame_allocator.h         *)
(*   TVMemStackFrameAllocator  include/gin/vmem_stack_frame_allocator.h    *)
(*   AllocatorFrame            include/gin/allocator_frame.h               *)
(* One behaviour follows one allocator object of one of the four classes   *)
(* (kind), from its default construction on.  Addresses and sizes are      *)
(* unsigned integers of PtrBits bits; null is 0.                           *)
(***************************************************************************)
EXTENDS Integers, Sequences, FiniteSets, TLC

VARIABLES
    kind,                    \* the class of the allocator object
    m_buffer,                \* linear, vmem linear, vmem stack: buffer address (0: not initialized)
    m_bufferSize,
    m_allocatedSize,
    m_lastAllocationOffset,  \* all four classes
    m_committedSize,         \* vmem linear, vmem stack
    m_liveFrame,             \* stack, vmem stack: address of the topmost FrameDescription
    m_liveSegment,           \* stack: address of the topmost live SegmentDescription
    m_freeSegmentList,       \* stack: address of the first free SegmentDescription
    m_defaultSegmentSize,    \* stack (0: not initialized)
    registered,              \* history: the caller's buffers given to RegisterSegment since the last Initialize
    segs,                    \* stack: the SegmentDescription stored at each mapped segment address
    mem,                     \* stack, vmem stack: FrameDescription::prevFrame stored at each frame address
    pages,                   \* vmem stack: offsets in the buffer of the pages the OS layer holds committed
    tokens,                  \* the AllocatorFrame objects the caller holds (m_allocatorData of each)
    allocs,                  \* history: the caller's allocations not yet released by a pop, Reset or Release
    frames,                  \* history: the frames pushed and not yet popped, oldest first
    lastPtr,                 \* history: pointer returned by the latest successful Allocate/Reallocate
                             \*   (0 after a push, a pop, Reset or Release)
    numAllocs,               \* history: allocations made since the last Initialize or Reset
                             \*   (stack: since construction)
    numFrames                \* history: frames pushed since the last Initialize
                             \*   (stack: since construction)

vars == << kind, m_buffer, m_bufferSize, m_allocatedSize, m_lastAllocationOffset,
           m_committedSize, m_liveFrame, m_liveSegment, m_freeSegmentList,
           m_defaultSegmentSize, registered, segs, mem, pages, tokens, allocs, frames,
           lastPtr, numAllocs, numFrames >>

\* The fields of the allocator object and the memory it manages.
allocatorVars == << m_buffer, m_bufferSize, m_allocatedSize, m_lastAllocationOffset,
                    m_committedSize, m_liveFrame, m_liveSegment, m_freeSegmentList,
                    m_defaultSegmentSize, segs, mem >>

----------------------------------------------------------------------------
\* Bounds of the model.

\* Width of uintptr_t and size_t in bits.
PtrBits == 16
\* Allocations made between two Initialize or Reset calls (TStackFrameAllocator:
\* since construction).
MaxAllocs == 3
\* Frames pushed between two Initialize calls (TStackFrameAllocator: since construction).
MaxFrames == 4
\* Allocations made and frames pushed, together, in that time.
MaxCalls == 5
\* Segments the virtual memory layer can map at once.
MaxSegments == 2
\* The most AllocatorFrame objects the caller holds when it move-constructs one more.
MaxTokens == 2

\* Constants of the program.

\* The page size written as 4096 throughout the VM allocators.
PageSize == 4096
\* sizeof(FrameDescription): one pointer.
FrameDescSize == 8
\* alignof(FrameDescription) == alignof(SegmentDescription).
FrameDescAlign == 8
\* sizeof(SegmentDescription): packed, segmentSize, allocatedSize.
SegDescSize == 24
\* SegmentDescription::kMinAlignment; kFlagsMask is kMinAlignment - 1.
kMinAlignment == 8
\* SegmentDescription::kIsExternallyManaged.
kIsExternallyManaged == 1

AddrMod == 2 ^ PtrBits
\* The width of SizeType in the instantiation TLinearAllocator<uint8_t>.
NarrowBits == 8
\* std::numeric_limits<SizeType>::max() + 1.  SizeType is size_t in the four
\* typedefs; the class templates accept any unsigned type.
SizeMod == IF kind = "linear8" THEN 2 ^ NarrowBits ELSE AddrMod
SizeMax == SizeMod - 1

----------------------------------------------------------------------------
\* utils.h

\* Unsigned wrap-around of uintptr_t / size_t arithmetic.
Wrap(x) == x % AddrMod
\* Unsigned wrap-around of SizeType arithmetic.
WrapSize(x) == x % SizeMod

\* A variant of AlignTo that leaves the value where it is.
AlignToNothing(value, alignment) == value

\* (value + (alignment - 1)) & ~(alignment - 1), alignment a power of two.
AlignTo(value, alignment) ==
    LET bumpedValue == Wrap(value + (alignment - 1))
    IN  bumpedValue - (bumpedValue % alignment)

\* (value & (alignment - 1)) == 0, alignment a power of two.
IsAlignedTo(value, alignment) == value % alignment = 0

\* value != 0 && (value & (value - 1)) == 0
\* A variant that accepts every alignment but 0.
IsNotZero(value) == value # 0

IsPowerOfTwo(value) == value \in { 2 ^ k : k \in 0 .. (PtrBits - 1) }

\* ptr >= buffer && ptr < buffer + bufferSize
IsPointerInBuffer(ptr, buffer, bufferSize) ==
    ptr >= buffer /\ ptr < Wrap(buffer + bufferSize)

CanSatisfyAllocation(buffer, bufferSize, allocatedSize, size, alignment) ==
    LET bufferHead == Wrap(buffer + allocatedSize)
        allocStart == AlignTo(bufferHead, alignment)
        allocEnd == Wrap(allocStart + size)
        allocSize == Wrap(allocEnd - bufferHead + AddrMod)
        newAllocatedSize == WrapSize(allocatedSize + allocSize)
    IN  IF allocStart < bufferHead THEN FALSE
        ELSE IF allocEnd <= allocStart THEN FALSE
        ELSE newAllocatedSize <= bufferSize

\* The pointer returned, the new allocatedSize and outAllocationOffset.
AllocateFromBuffer(buffer, bufferSize, allocatedSize, size, alignment) ==
    LET bufferHead == Wrap(buffer + allocatedSize)
        allocStart == AlignTo(bufferHead, alignment)
        allocEnd == Wrap(allocStart + size)
        allocSize == Wrap(allocEnd - bufferHead + AddrMod)
    IN  [ ptr |-> allocStart,
          allocatedSize |-> WrapSize(allocatedSize + allocSize),
          offset |-> WrapSize(Wrap(allocStart - buffer + AddrMod)) ]

----------------------------------------------------------------------------
\* The callers' inputs.

Kinds == { "linear", "vmlinear", "stack", "vmstack" }

\* Sizes and alignments the callers ask for.
SizeInputs == { 1, 16, PageSize }
AlignInputs == { 1, 8 }

\* (size, alignment) given to Allocate and, with an old allocation, to Reallocate:
\* the valid pairs, an empty size, and alignments that are no power of two.
AllocInputs == (SizeInputs \X AlignInputs) \cup { << 0, 8 >>, << 1, 3 >>, << 1, 0 >> }

\* (size, alignment) given to Allocate: those, and a size that reaches the top of
\* the address space.
AllocateInputs == AllocInputs \cup { << AddrMod - 8, 8 >> }

\* (buffer, bufferSize) given to TLinearAllocator::Initialize: a null buffer, an
\* empty one, an unaligned one and one that ends at the top of the address space.
LinearInputs ==
    { << 0, 4 * FrameDescSize >>, << PageSize + 3, 0 >>,
      << PageSize + 3, 4 * FrameDescSize >>, << AddrMod - 9, 8 >> }

\* bufferSize given to the VM allocators' Initialize.
VMemSizeInputs == { 100, PageSize + 1904, 2 * PageSize }

\* Where VirtualReserve places the reserved range.
ReserveBase == 2 * PageSize

\* What an uninitialized field of a default-constructed object may hold.
Indeterminate == { 0, 13 }

----------------------------------------------------------------------------
\* History kept beside the allocator: what the caller holds.

\* An allocation made since the last Reset, Release or pop of its frame: the pointer
\* returned, its size, the number of live frames when it was made, and whether the
\* caller still holds it (a Reallocate that moved it gave the caller another pointer).
NullAlloc == [ ptr |-> 0, size |-> 0, depth |-> 0, live |-> FALSE ]

\* The allocation a Reallocate call names: null, or one the caller holds, with its true size.
OldAllocs == { a \in allocs : a.live } \cup { NullAlloc }

Depth == Len(frames)

\* The allocations after Reallocate(a.ptr, a.size, newSize, ..) returned ret.
AllocsAfterRealloc(a, newSize, ret) ==
    IF ret = 0 THEN allocs
    ELSE IF ret = a.ptr THEN (allocs \ { a }) \cup { [ a EXCEPT !.size = newSize ] }
    ELSE (allocs \ { a }) \cup { [ a EXCEPT !.live = FALSE ] : x \in { a } \ { NullAlloc } }
         \cup { [ ptr |-> ret, size |-> newSize, depth |-> Depth, live |-> TRUE ] }

AllocsAfterAlloc(size, ret) ==
    IF ret = 0 THEN allocs
    ELSE allocs \cup { [ ptr |-> ret, size |-> size, depth |-> Depth, live |-> TRUE ] }

\* A call that makes a new allocation is made only while fewer than MaxAllocs were made.
MayAllocate == numAllocs < MaxAllocs /\ numAllocs + numFrames < MaxCalls

\* AllocatorFrame objects are moved once the MaxFrames pushes are made.
MayMove == numFrames >= MaxFrames

\* PushFrame is called only while fewer than MaxFrames frames were pushed.
MayPush == numFrames < MaxFrames /\ numAllocs + numFrames < MaxCalls

\* Reallocate(a.ptr, ..) returning ret made a new allocation.
Moved(a, ret) == ret # 0 /\ ret # a.ptr

stackVars == << m_liveFrame, m_liveSegment, m_freeSegmentList, m_defaultSegmentSize, registered,
                segs, mem, tokens, frames, numFrames >>

----------------------------------------------------------------------------
\* TLinearAllocator

\* The object is a TLinearAllocator<SizeType>: LinearAllocator, or the instantiation
\* with the narrower SizeType.
IsTLinearAllocator == kind \in { "linear", "linear8" }

LinearIsInitialized == m_buffer # 0

LinearGetAllocatedSize == m_allocatedSize

LinearIsOwnerOf(ptr) ==
    IF ~LinearIsInitialized THEN FALSE
    ELSE LET bufferStart == m_buffer
             bufferEnd == Wrap(bufferStart + m_allocatedSize)
         IN  ptr >= bufferStart /\ ptr < bufferEnd

\* A variant of the out-of-memory test that never refuses.
NeverOutOfMemory(newAllocatedSize, bufferSize) == FALSE

\* newAllocatedSize > bufferSize: "Out of memory" in AllocateImpl and ReallocateImpl.
OutOfMemory(newAllocatedSize, bufferSize) == newAllocatedSize > bufferSize

\* What AllocateImpl stores in m_lastAllocationOffset.
LinearLastAllocationOffset(allocStart, bufferHead, buffer) ==
    WrapSize(Wrap(allocStart - bufferHead + AddrMod))

\* The pointer returned and the fields as AllocateImpl leaves them.
LinearAllocateImpl(size, alignment) ==
    LET unchanged == [ ptr |-> 0, allocatedSize |-> m_allocatedSize,
                       lastAllocationOffset |-> m_lastAllocationOffset ]
        allocatedSize == m_allocatedSize
        bufferHead == Wrap(m_buffer + allocatedSize)
        allocStart == AlignTo(bufferHead, alignment)
        allocEnd == Wrap(allocStart + size)
        allocSize == Wrap(allocEnd - bufferHead + AddrMod)
        newAllocatedSize == WrapSize(allocatedSize + allocSize)
    IN  IF ~LinearIsInitialized THEN unchanged
        ELSE IF size = 0 \/ ~IsPowerOfTwo(alignment) THEN unchanged
        ELSE IF allocStart < bufferHead THEN unchanged
        ELSE IF allocEnd <= allocStart THEN unchanged
        ELSE IF OutOfMemory(newAllocatedSize, m_bufferSize) THEN unchanged
        ELSE [ ptr |-> allocStart, allocatedSize |-> newAllocatedSize,
               lastAllocationOffset |->
                   LinearLastAllocationOffset(allocStart, bufferHead, m_buffer) ]

\* Whether ReallocateImpl takes the branch that reuses the memory of oldPtr.
LinearIsLastAllocation(oldPtr) ==
    Wrap(m_buffer + m_lastAllocationOffset) = oldPtr

\* allocatedSize + (newSize - oldSize) in SizeType.
ReallocatedSize(allocatedSize, oldSize, newSize) ==
    LET deltaSize == WrapSize(newSize - oldSize + SizeMod)
    IN  WrapSize(allocatedSize + deltaSize)

LinearReallocateImpl(oldPtr, oldSize, newSize, alignment) ==
    LET unchanged == [ ptr |-> 0, allocatedSize |-> m_allocatedSize,
                       lastAllocationOffset |-> m_lastAllocationOffset ]
        newAllocatedSize == ReallocatedSize(m_allocatedSize, oldSize, newSize)
    IN  IF ~LinearIsInitialized THEN unchanged
        ELSE IF newSize = 0 \/ ~IsPowerOfTwo(alignment) THEN unchanged
        ELSE IF LinearIsLastAllocation(oldPtr)
             THEN IF OutOfMemory(newAllocatedSize, m_bufferSize) THEN unchanged
                  ELSE [ ptr |-> oldPtr, allocatedSize |-> newAllocatedSize,
                         lastAllocationOffset |-> m_lastAllocationOffset ]
             ELSE LinearAllocateImpl(newSize, alignment)

\* A variant without the IsInitialized() check.
LinearInitializeAgain(buffer, bufferSize) ==
    /\ IsTLinearAllocator
    /\ IF buffer = 0 \/ bufferSize = 0 \/ bufferSize > SizeMax
       THEN UNCHANGED << m_buffer, m_bufferSize, m_allocatedSize, m_lastAllocationOffset >>
       ELSE /\ m_buffer' = buffer
            /\ m_bufferSize' = bufferSize
            /\ m_allocatedSize' = 0
            /\ m_lastAllocationOffset' = bufferSize
    /\ UNCHANGED << kind, pages, m_committedSize, stackVars, allocs, numAllocs, lastPtr >>

LinearInitialize(buffer, bufferSize) ==
    /\ IsTLinearAllocator
    /\ IF LinearIsInitialized
       THEN UNCHANGED << m_buffer, m_bufferSize, m_allocatedSize, m_lastAllocationOffset >>
       ELSE IF buffer = 0 \/ bufferSize = 0 \/ bufferSize > SizeMax
       THEN UNCHANGED << m_buffer, m_bufferSize, m_allocatedSize, m_lastAllocationOffset >>
       ELSE /\ m_buffer' = buffer
            /\ m_bufferSize' = bufferSize
            /\ m_allocatedSize' = 0
            /\ m_lastAllocationOffset' = bufferSize
    /\ UNCHANGED << kind, pages, m_committedSize, stackVars, allocs, numAllocs, lastPtr >>

\* A variant that rewinds m_lastAllocationOffset and keeps m_allocatedSize.
LinearResetKeepsAllocated ==
    /\ IsTLinearAllocator
    /\ IF ~LinearIsInitialized
       THEN UNCHANGED << m_lastAllocationOffset, allocs, numAllocs, lastPtr >>
       ELSE /\ m_lastAllocationOffset' = m_bufferSize
            /\ allocs' = {}
            /\ numAllocs' = 0
            /\ lastPtr' = 0
    /\ UNCHANGED << kind, pages, m_buffer, m_bufferSize, m_allocatedSize, m_committedSize, stackVars >>

LinearReset ==
    /\ IsTLinearAllocator
    /\ IF ~LinearIsInitialized
       THEN UNCHANGED << m_allocatedSize, m_lastAllocationOffset, allocs, numAllocs, lastPtr >>
       ELSE /\ m_allocatedSize' = 0
            /\ m_lastAllocationOffset' = m_bufferSize
            /\ allocs' = {}
            /\ numAllocs' = 0
            /\ lastPtr' = 0
    /\ UNCHANGED << kind, pages, m_buffer, m_bufferSize, m_committedSize, stackVars >>

LinearRelease ==
    /\ IsTLinearAllocator
    /\ IF ~LinearIsInitialized
       THEN UNCHANGED << m_buffer, allocs, numAllocs, lastPtr >>
       ELSE /\ m_buffer' = 0
            /\ allocs' = {}
            /\ numAllocs' = 0
            /\ lastPtr' = 0
    /\ UNCHANGED << kind, pages, m_bufferSize, m_allocatedSize, m_lastAllocationOffset,
                    m_committedSize, stackVars >>

LinearAllocate(size, alignment) ==
    /\ IsTLinearAllocator
    /\ MayAllocate
    /\ \E r \in { LinearAllocateImpl(size, alignment) } :
           /\ m_allocatedSize' = r.allocatedSize
           /\ m_lastAllocationOffset' = r.lastAllocationOffset
           /\ allocs' = AllocsAfterAlloc(size, r.ptr)
           /\ numAllocs' = IF r.ptr # 0 THEN numAllocs + 1 ELSE numAllocs
           /\ lastPtr' = IF r.ptr # 0 THEN r.ptr ELSE lastPtr
    /\ UNCHANGED << kind, pages, m_buffer, m_bufferSize, m_committedSize, stackVars >>

LinearReallocate(a, newSize, alignment) ==
    /\ IsTLinearAllocator
    /\ \E r \in { LinearReallocateImpl(a.ptr, a.size, newSize, alignment) } :
           /\ Moved(a, r.ptr) => MayAllocate
           /\ m_allocatedSize' = r.allocatedSize
           /\ m_lastAllocationOffset' = r.lastAllocationOffset
           /\ allocs' = AllocsAfterRealloc(a, newSize, r.ptr)
           /\ numAllocs' = IF Moved(a, r.ptr) THEN numAllocs + 1 ELSE numAllocs
           /\ lastPtr' = IF r.ptr # 0 THEN r.ptr ELSE lastPtr
    /\ UNCHANGED << kind, pages, m_buffer, m_bufferSize, m_committedSize, stackVars >>

\* A variant of Deallocate that gives the bytes of the allocation back.
LinearDeallocateFrees(a) ==
    /\ IsTLinearAllocator
    /\ m_allocatedSize' = IF m_allocatedSize >= a.size THEN m_allocatedSize - a.size
                          ELSE m_allocatedSize
    /\ UNCHANGED << kind, pages, m_buffer, m_bufferSize, m_lastAllocationOffset, m_committedSize,
                    stackVars, allocs, numAllocs, lastPtr >>

\* Deallocate: "Not supported, does nothing".
LinearDeallocate(a) ==
    /\ IsTLinearAllocator
    /\ UNCHANGED << kind, pages, allocatorVars, registered, tokens, allocs, numAllocs, frames, numFrames, lastPtr >>

----------------------------------------------------------------------------
\* TVMemLinearAllocator.  VirtualReserve, VirtualCommit, VirtualDecommit and
\* VirtualRelease may fail: each call that reaches one takes the outcome as vmOk.
\* (Where the header asserts the outcome, a build with assertions stops there
\* instead of returning.)

\* A variant of the commit size that is not rounded to whole pages.
CommitSizeExact(newAllocatedSize, committedSize) ==
    WrapSize(newAllocatedSize - committedSize + SizeMod)

\* A variant that commits one page whatever the allocation needs.
CommitSizeOnePage(newAllocatedSize, committedSize) == PageSize

\* AlignTo(newAllocatedSize - committedSize, 4096) in SizeType.
CommitSize(newAllocatedSize, committedSize) ==
    WrapSize(AlignTo(newAllocatedSize - committedSize, PageSize))

VMemLinearIsInitialized == m_buffer # 0

VMemLinearGetAllocatedSize == m_allocatedSize

VMemLinearGetCommittedSize == m_committedSize

VMemLinearIsOwnerOf(ptr) ==
    IF ~VMemLinearIsInitialized THEN FALSE
    ELSE LET bufferStart == m_buffer
             bufferEnd == Wrap(bufferStart + m_allocatedSize)
         IN  ptr >= bufferStart /\ ptr < bufferEnd

\* What AllocateImpl stores in m_lastAllocationOffset.
VMemLinearLastAllocationOffset(allocStart, bufferHead, buffer) ==
    WrapSize(Wrap(allocStart - bufferHead + AddrMod))

VMemLinearAllocateImpl(size, alignment, vmOk) ==
    LET unchanged == [ ptr |-> 0, allocatedSize |-> m_allocatedSize,
                       lastAllocationOffset |-> m_lastAllocationOffset,
                       committedSize |-> m_committedSize ]
        allocatedSize == m_allocatedSize
        bufferHead == Wrap(m_buffer + allocatedSize)
        allocStart == AlignTo(bufferHead, alignment)
        allocEnd == Wrap(allocStart + size)
        allocSize == Wrap(allocEnd - bufferHead + AddrMod)
        newAllocatedSize == WrapSize(allocatedSize + allocSize)
        committedSize == m_committedSize
    IN  IF ~VMemLinearIsInitialized THEN unchanged
        ELSE IF size = 0 \/ ~IsPowerOfTwo(alignment) THEN unchanged
        ELSE IF allocStart < bufferHead THEN unchanged
        ELSE IF allocEnd <= allocStart THEN unchanged
        ELSE IF newAllocatedSize > m_bufferSize THEN unchanged
        ELSE IF newAllocatedSize > committedSize /\ ~vmOk THEN unchanged
        ELSE [ ptr |-> allocStart, allocatedSize |-> newAllocatedSize,
               lastAllocationOffset |->
                   VMemLinearLastAllocationOffset(allocStart, bufferHead, m_buffer),
               committedSize |->
                   IF newAllocatedSize > committedSize
                   THEN WrapSize(committedSize + CommitSize(newAllocatedSize, committedSize))
                   ELSE committedSize ]

VMemLinearIsLastAllocation(oldPtr) ==
    Wrap(m_buffer + m_lastAllocationOffset) = oldPtr

VMemLinearReallocateImpl(oldPtr, oldSize, newSize, alignment, vmOk) ==
    LET unchanged == [ ptr |-> 0, allocatedSize |-> m_allocatedSize,
                       lastAllocationOffset |-> m_lastAllocationOffset,
                       committedSize |-> m_committedSize ]
        newAllocatedSize == ReallocatedSize(m_allocatedSize, oldSize, newSize)
        committedSize == m_committedSize
    IN  IF ~VMemLinearIsInitialized THEN unchanged
        ELSE IF newSize = 0 \/ ~IsPowerOfTwo(alignment) THEN unchanged
        ELSE IF VMemLinearIsLastAllocation(oldPtr)
             THEN IF newAllocatedSize > m_bufferSize THEN unchanged
                  ELSE IF newAllocatedSize > committedSize /\ ~vmOk THEN unchanged
                  ELSE [ ptr |-> oldPtr, allocatedSize |-> newAllocatedSize,
                         lastAllocationOffset |-> m_lastAllocationOffset,
                         committedSize |->
                             IF newAllocatedSize > committedSize
                             THEN WrapSize(committedSize
                                           + CommitSize(newAllocatedSize, committedSize))
                             ELSE committedSize ]
             ELSE VMemLinearAllocateImpl(newSize, alignment, vmOk)

VMemLinearInitialize(bufferSize, vmOk) ==
    /\ kind = "vmlinear"
    /\ IF VMemLinearIsInitialized
       THEN UNCHANGED << m_buffer, m_bufferSize, m_allocatedSize, m_lastAllocationOffset,
                         m_committedSize >>
       ELSE IF bufferSize < 4 * 1024 \/ bufferSize > SizeMax
       THEN UNCHANGED << m_buffer, m_bufferSize, m_allocatedSize, m_lastAllocationOffset,
                         m_committedSize >>
       ELSE IF ~vmOk
       THEN UNCHANGED << m_buffer, m_bufferSize, m_allocatedSize, m_lastAllocationOffset,
                         m_committedSize >>
       ELSE /\ m_buffer' = ReserveBase
            /\ m_bufferSize' = bufferSize
            /\ m_allocatedSize' = 0
            /\ m_lastAllocationOffset' = bufferSize
            /\ m_committedSize' = 0
    /\ UNCHANGED << kind, pages, stackVars, allocs, numAllocs, lastPtr >>

VMemLinearReset(vmOk) ==
    /\ kind = "vmlinear"
    /\ IF ~VMemLinearIsInitialized \/ (m_committedSize # 0 /\ ~vmOk)
       THEN UNCHANGED << m_allocatedSize, m_lastAllocationOffset, m_committedSize,
                         allocs, numAllocs, lastPtr >>
       ELSE /\ m_allocatedSize' = 0
            /\ m_lastAllocationOffset' = m_bufferSize
            /\ m_committedSize' = 0
            /\ allocs' = {}
            /\ numAllocs' = 0
            /\ lastPtr' = 0
    /\ UNCHANGED << kind, pages, m_buffer, m_bufferSize, stackVars >>

VMemLinearRelease(vmOk) ==
    /\ kind = "vmlinear"
    /\ IF ~VMemLinearIsInitialized \/ ~vmOk
       THEN UNCHANGED << m_buffer, allocs, numAllocs, lastPtr >>
       ELSE /\ m_buffer' = 0
            /\ allocs' = {}
            /\ numAllocs' = 0
            /\ lastPtr' = 0
    /\ UNCHANGED << kind, pages, m_bufferSize, m_allocatedSize, m_lastAllocationOffset,
                    m_committedSize, stackVars >>

VMemLinearAllocate(size, alignment, vmOk) ==
    /\ kind = "vmlinear"
    /\ MayAllocate
    /\ \E r \in { VMemLinearAllocateImpl(size, alignment, vmOk) } :
           /\ m_allocatedSize' = r.allocatedSize
           /\ m_lastAllocationOffset' = r.lastAllocationOffset
           /\ m_committedSize' = r.committedSize
           /\ allocs' = AllocsAfterAlloc(size, r.ptr)
           /\ numAllocs' = IF r.ptr # 0 THEN numAllocs + 1 ELSE numAllocs
           /\ lastPtr' = IF r.ptr # 0 THEN r.ptr ELSE lastPtr
    /\ UNCHANGED << kind, pages, m_buffer, m_bufferSize, stackVars >>

VMemLinearReallocate(a, newSize, alignment, vmOk) ==
    /\ kind = "vmlinear"
    /\ \E r \in { VMemLinearReallocateImpl(a.ptr, a.size, newSize, alignment, vmOk) } :
           /\ Moved(a, r.ptr) => MayAllocate
           /\ m_allocatedSize' = r.allocatedSize
           /\ m_lastAllocationOffset' = r.lastAllocationOffset
           /\ m_committedSize' = r.committedSize
           /\ allocs' = AllocsAfterRealloc(a, newSize, r.ptr)
           /\ numAllocs' = IF Moved(a, r.ptr) THEN numAllocs + 1 ELSE numAllocs
           /\ lastPtr' = IF r.ptr # 0 THEN r.ptr ELSE lastPtr
    /\ UNCHANGED << kind, pages, m_buffer, m_bufferSize, stackVars >>

VMemLinearDeallocate(a) ==
    /\ kind = "vmlinear"
    /\ UNCHANGED << kind, pages, allocatorVars, registered, tokens, allocs, numAllocs, frames, numFrames, lastPtr >>

----------------------------------------------------------------------------
\* AllocatorFrame (allocator_frame.h) and the memory that holds the FrameDescriptions.
\* tokens holds the caller's AllocatorFrame objects: those that can still pop and
\* those a move construction left empty.  A token is
\* [data, depth]: m_allocatorData, and (history) the number of live frames right after
\* the push that made it.

\* AllocatorFrame::CanPop
CanPop(token) == token.data # 0

\* Pop() resets m_allocatorData whatever the allocator answered: the i-th token
\* cannot pop again.
TokensAfterPop(i) == [ j \in 1 .. (Len(tokens) - 1) |->
                         IF j < i THEN tokens[j] ELSE tokens[j + 1] ]

TokenData(toks) == { toks[j].data : j \in 1 .. Len(toks) } \ { 0 }

\* Only a FrameDescription some token still points at can be read again:
\* the model keeps the contents of those.
Remember(m, toks) == [ f \in (DOMAIN m) \cap TokenData(toks) |-> m[f] ]

\* frameDesc->prevFrame = prev
StoreFrame(m, frameDesc, prev) ==
    [ f \in (DOMAIN m) \cup { frameDesc } |-> IF f = frameDesc THEN prev ELSE m[f] ]

\* What bytes copied from the caller's old allocation may spell in a prevFrame
\* field: null, or a value that is no frame's address.
CopiedBytes == { 0, 1 }

\* The FrameDescriptions that memcpy(ptr, oldPtr, numBytesToCopy) writes into.
Overwritten(m, ptr, numBytesToCopy) ==
    { f \in DOMAIN m : ptr < f + FrameDescSize /\ f < ptr + numBytesToCopy }

\* numBytesToCopy = newSize >= oldSize ? oldSize : newSize
NumBytesToCopy(oldSize, newSize) == IF newSize >= oldSize THEN oldSize ELSE newSize

\* The memories memcpy may leave: every overwritten prevFrame holds copied bytes.
MemAfterCopy(m, ptr, numBytesToCopy) ==
    IF Overwritten(m, ptr, numBytesToCopy) = {} THEN { m }
    ELSE { [ f \in DOMAIN m |->
               IF f \in Overwritten(m, ptr, numBytesToCopy) THEN v ELSE m[f] ] :
           v \in CopiedBytes }

\* The frames and allocations that remain when the frame of depth d is popped.
FramesAfterPop(d) == SubSeq(frames, 1, IF d - 1 < Len(frames) THEN d - 1 ELSE Len(frames))
AllocsAfterPop(d) == { a \in allocs : a.depth < d }

\* AllocatorFrame(): m_allocatorData is null; such an object belongs to no frame
\* (depth beyond every frame's).
EmptyFrame == [ data |-> 0, depth |-> MaxFrames + 1 ]

\* AllocatorFrame(AllocatorFrame&& frame): a new object, constructed empty, swaps
\* its fields with the caller's i-th one and joins the caller's objects.
AllocatorFrameMoveConstruct(i) ==
    /\ kind \in { "stack", "vmstack" }
    /\ MayMove
    /\ Len(tokens) < MaxTokens
    /\ CanPop(tokens[i])
    /\ tokens' = Append([ tokens EXCEPT ![i] = EmptyFrame ], tokens[i])
    /\ UNCHANGED << kind, pages, allocatorVars, registered, allocs, numAllocs, frames, numFrames, lastPtr >>

\* operator=(AllocatorFrame&& frame) with the caller's i-th object as frame and
\* the j-th as *this: std::swap of the fields.
AllocatorFrameMoveAssign(i, j) ==
    /\ kind \in { "stack", "vmstack" }
    /\ MayMove
    /\ Len(tokens) <= MaxTokens
    /\ i # j
    /\ tokens' = [ tokens EXCEPT ![i] = tokens[j], ![j] = tokens[i] ]
    /\ UNCHANGED << kind, pages, allocatorVars, registered, allocs, numAllocs, frames, numFrames, lastPtr >>

\* Pop() on an AllocatorFrame that cannot pop: default-constructed, returned by a
\* PushFrame that failed, moved from, or popped before.
AllocatorFramePopEmpty ==
    /\ kind \in { "stack", "vmstack" }
    /\ UNCHANGED << kind, pages, allocatorVars, registered, tokens, allocs, numAllocs, frames, numFrames, lastPtr >>

----------------------------------------------------------------------------
\* TVMemStackFrameAllocator

\* The pages that VirtualCommit or VirtualDecommit(m_buffer + offset, size) covers,
\* offset being a multiple of the page size.
Pages(offset, size) ==
    { k * PageSize : k \in (offset \div PageSize) .. ((offset + size - 1) \div PageSize) }

VMemStackIsInitialized == m_buffer # 0

VMemStackGetAllocatedSize == m_allocatedSize

VMemStackGetCommittedSize == m_committedSize

VMemStackHasLiveFrame == m_liveFrame # 0

VMemStackIsOwnerOf(ptr) ==
    IF ~VMemStackIsInitialized THEN FALSE
    ELSE IsPointerInBuffer(ptr, m_buffer, m_allocatedSize)

VMemStackAllocateImpl(size, alignment, vmOk) ==
    LET unchanged == [ ptr |-> 0, allocatedSize |-> m_allocatedSize,
                       lastAllocationOffset |-> m_lastAllocationOffset,
                       committedSize |-> m_committedSize ]
        r == AllocateFromBuffer(m_buffer, m_bufferSize, m_allocatedSize, size, alignment)
        committedSize == m_committedSize
    IN  IF ~CanSatisfyAllocation(m_buffer, m_bufferSize, m_allocatedSize, size, alignment)
        THEN unchanged
        ELSE IF r.allocatedSize > committedSize /\ ~vmOk THEN unchanged
        ELSE [ ptr |-> r.ptr, allocatedSize |-> r.allocatedSize,
               lastAllocationOffset |-> r.offset,
               committedSize |->
                   IF r.allocatedSize > committedSize
                   THEN WrapSize(committedSize + CommitSize(r.allocatedSize, committedSize))
                   ELSE committedSize ]

\* Allocate: the checks made before AllocateImpl.
VMemStackAllocateChecked(size, alignment, vmOk) ==
    LET unchanged == [ ptr |-> 0, allocatedSize |-> m_allocatedSize,
                       lastAllocationOffset |-> m_lastAllocationOffset,
                       committedSize |-> m_committedSize ]
    IN  IF ~VMemStackIsInitialized THEN unchanged
        ELSE IF size = 0 \/ ~IsPowerOfTwo(alignment) THEN unchanged
        ELSE IF ~VMemStackHasLiveFrame THEN unchanged
        ELSE VMemStackAllocateImpl(size, alignment, vmOk)

VMemStackIsLastAllocation(oldPtr) ==
    Wrap(m_buffer + m_lastAllocationOffset) = oldPtr

\* moved: the call went through AllocateImpl and memcpy.
VMemStackReallocateImpl(oldPtr, oldSize, newSize, alignment, vmOk) ==
    LET unchanged == [ ptr |-> 0, allocatedSize |-> m_allocatedSize,
                       lastAllocationOffset |-> m_lastAllocationOffset,
                       committedSize |-> m_committedSize, moved |-> FALSE ]
        newAllocatedSize == ReallocatedSize(m_allocatedSize, oldSize, newSize)
        committedSize == m_committedSize
        fresh == VMemStackAllocateImpl(newSize, alignment, vmOk)
    IN  IF ~VMemStackIsInitialized THEN unchanged
        ELSE IF newSize = 0 \/ ~IsPowerOfTwo(alignment) THEN unchanged
        ELSE IF ~VMemStackHasLiveFrame THEN unchanged
        ELSE IF VMemStackIsLastAllocation(oldPtr)
             THEN IF newAllocatedSize > m_bufferSize THEN unchanged
                  ELSE IF newAllocatedSize > committedSize /\ ~vmOk THEN unchanged
                  ELSE [ ptr |-> oldPtr, allocatedSize |-> newAllocatedSize,
                         lastAllocationOffset |-> m_lastAllocationOffset,
                         committedSize |->
                             IF newAllocatedSize > committedSize
                             THEN WrapSize(committedSize
                                           + CommitSize(newAllocatedSize, committedSize))
                             ELSE committedSize,
                         moved |-> FALSE ]
             ELSE [ ptr |-> fresh.ptr, allocatedSize |-> fresh.allocatedSize,
                    lastAllocationOffset |-> fresh.lastAllocationOffset,
                    committedSize |-> fresh.committedSize, moved |-> fresh.ptr # 0 ]

\* What a pop returns and leaves when it changes nothing.
VMemStackNotPopped ==
    [ ok |-> FALSE, liveFrame |-> m_liveFrame, allocatedSize |-> m_allocatedSize ]

\* The result of PopImpl and the fields as it leaves them.
VMemStackPopImpl(frameDesc) ==
    IF ~VMemStackIsInitialized THEN VMemStackNotPopped
    ELSE IF frameDesc # m_liveFrame THEN VMemStackNotPopped
    ELSE [ ok |-> TRUE, liveFrame |-> mem[frameDesc],
           allocatedSize |-> WrapSize(Wrap(frameDesc - m_buffer + AddrMod)) ]

VMemStackInitialize(bufferSize, vmOk) ==
    /\ kind = "vmstack"
    /\ IF VMemStackIsInitialized
       THEN UNCHANGED << m_buffer, m_liveFrame, m_bufferSize, m_allocatedSize,
                         m_committedSize, m_lastAllocationOffset >>
       ELSE IF bufferSize < 4096 \/ ~IsAlignedTo(bufferSize, 4096) \/ bufferSize > SizeMax
       THEN UNCHANGED << m_buffer, m_liveFrame, m_bufferSize, m_allocatedSize,
                         m_committedSize, m_lastAllocationOffset >>
       ELSE IF ~vmOk
       THEN UNCHANGED << m_buffer, m_liveFrame, m_bufferSize, m_allocatedSize,
                         m_committedSize, m_lastAllocationOffset >>
       ELSE /\ m_buffer' = ReserveBase
            /\ m_liveFrame' = 0
            /\ m_bufferSize' = bufferSize
            /\ m_allocatedSize' = 0
            /\ m_committedSize' = 0
            /\ m_lastAllocationOffset' = bufferSize
    /\ pages' = IF m_buffer' = m_buffer THEN pages ELSE {}
    /\ UNCHANGED << kind, m_liveSegment, m_freeSegmentList, m_defaultSegmentSize, registered, segs,
                    mem, tokens, allocs, numAllocs, frames, numFrames, lastPtr >>

VMemStackRelease(vmOk) ==
    /\ kind = "vmstack"
    /\ IF ~VMemStackIsInitialized \/ VMemStackHasLiveFrame \/ ~vmOk
       THEN UNCHANGED << m_buffer, m_liveFrame, m_bufferSize, m_allocatedSize,
                         m_committedSize, m_lastAllocationOffset, allocs, numAllocs, frames, numFrames, lastPtr >>
       ELSE /\ m_buffer' = 0
            /\ m_liveFrame' = 0
            /\ m_bufferSize' = 0
            /\ m_allocatedSize' = 0
            /\ m_committedSize' = 0
            /\ m_lastAllocationOffset' = 0
            /\ allocs' = {}
            /\ numAllocs' = 0
            /\ frames' = << >>
            /\ numFrames' = 0
            /\ lastPtr' = 0
    /\ pages' = IF m_buffer' = m_buffer THEN pages ELSE {}
    /\ UNCHANGED << kind, m_liveSegment, m_freeSegmentList, m_defaultSegmentSize, registered, segs,
                    mem, tokens >>

\* minSlack given to DecommitSlack.
SlackInputs == { 0, 8, PageSize }

\* A variant that decommits slack - minSlack without rounding down to whole pages.
VMemStackDecommitSlackExact(minSlack, vmOk) ==
    LET slack == WrapSize(m_committedSize - m_allocatedSize + SizeMod)
        decommitSize == Wrap(slack - minSlack + AddrMod)
    IN  IF ~VMemStackIsInitialized THEN [ ok |-> FALSE, committedSize |-> m_committedSize ]
        ELSE IF ~IsAlignedTo(minSlack, 4096) \/ minSlack > SizeMax
        THEN [ ok |-> FALSE, committedSize |-> m_committedSize ]
        ELSE IF slack > minSlack /\ decommitSize # 0
        THEN [ ok |-> vmOk,
               committedSize |-> IF vmOk THEN WrapSize(m_committedSize - decommitSize + SizeMod)
                                 ELSE m_committedSize ]
        ELSE [ ok |-> TRUE, committedSize |-> m_committedSize ]

\* What DecommitSlack returns and the committed size it leaves.
VMemStackDecommitSlackImpl(minSlack, vmOk) ==
    LET slack == WrapSize(m_committedSize - m_allocatedSize + SizeMod)
        decommitSize == LET d == Wrap(slack - minSlack + AddrMod)
                        IN  d - (d % 4096)
    IN  IF ~VMemStackIsInitialized THEN [ ok |-> FALSE, committedSize |-> m_committedSize ]
        ELSE IF ~IsAlignedTo(minSlack, 4096) \/ minSlack > SizeMax
        THEN [ ok |-> FALSE, committedSize |-> m_committedSize ]
        ELSE IF slack > minSlack /\ decommitSize # 0
        THEN [ ok |-> vmOk,
               committedSize |-> IF vmOk THEN WrapSize(m_committedSize - decommitSize + SizeMod)
                                 ELSE m_committedSize ]
        ELSE [ ok |-> TRUE, committedSize |-> m_committedSize ]

VMemStackDecommitSlack(minSlack, vmOk) ==
    /\ kind = "vmstack"
    /\ m_committedSize' = VMemStackDecommitSlackImpl(minSlack, vmOk).committedSize
    /\ pages' = pages \ Pages(0, m_committedSize - m_committedSize')
    /\ UNCHANGED << kind, m_buffer, m_bufferSize, m_allocatedSize, m_lastAllocationOffset,
                    stackVars, allocs, numAllocs, lastPtr >>

VMemStackAllocate(size, alignment, vmOk) ==
    /\ kind = "vmstack"
    /\ MayAllocate
    /\ \E r \in { VMemStackAllocateChecked(size, alignment, vmOk) } :
           /\ m_allocatedSize' = r.allocatedSize
           /\ m_lastAllocationOffset' = r.lastAllocationOffset
           /\ m_committedSize' = r.committedSize
           /\ allocs' = AllocsAfterAlloc(size, r.ptr)
           /\ numAllocs' = IF r.ptr # 0 THEN numAllocs + 1 ELSE numAllocs
           /\ lastPtr' = IF r.ptr # 0 THEN r.ptr ELSE lastPtr
    /\ pages' = pages \cup Pages(m_committedSize, m_committedSize' - m_committedSize)
    /\ UNCHANGED << kind, m_buffer, m_bufferSize, stackVars >>

VMemStackReallocate(a, newSize, alignment, vmOk) ==
    /\ kind = "vmstack"
    /\ \E r \in { VMemStackReallocateImpl(a.ptr, a.size, newSize, alignment, vmOk) } :
           /\ Moved(a, r.ptr) => MayAllocate
           /\ m_allocatedSize' = r.allocatedSize
           /\ m_lastAllocationOffset' = r.lastAllocationOffset
           /\ m_committedSize' = r.committedSize
           /\ mem' \in IF r.moved
                       THEN MemAfterCopy(mem, r.ptr, NumBytesToCopy(a.size, newSize))
                       ELSE { mem }
           /\ allocs' = AllocsAfterRealloc(a, newSize, r.ptr)
           /\ numAllocs' = IF Moved(a, r.ptr) THEN numAllocs + 1 ELSE numAllocs
           /\ lastPtr' = IF r.ptr # 0 THEN r.ptr ELSE lastPtr
    /\ pages' = pages \cup Pages(m_committedSize, m_committedSize' - m_committedSize)
    /\ UNCHANGED << kind, m_buffer, m_bufferSize, m_liveFrame, m_liveSegment,
                    m_freeSegmentList, m_defaultSegmentSize, registered, segs, tokens, frames, numFrames >>

\* A variant of Deallocate that gives back the bytes of the allocation.
VMemStackDeallocateFrees(a) ==
    /\ kind = "vmstack"
    /\ m_allocatedSize' = IF m_allocatedSize >= a.size THEN m_allocatedSize - a.size
                          ELSE m_allocatedSize
    /\ UNCHANGED << kind, pages, m_buffer, m_bufferSize, m_lastAllocationOffset, m_committedSize,
                    stackVars, allocs, numAllocs, lastPtr >>

VMemStackDeallocate(a) ==
    /\ kind = "vmstack"
    /\ UNCHANGED << kind, pages, allocatorVars, registered, tokens, allocs, numAllocs, frames, numFrames, lastPtr >>

\* PushFrame: PushImpl, and the AllocatorFrame it hands to the caller.
VMemStackPushFrame(vmOk) ==
    /\ kind = "vmstack"
    /\ MayPush
    /\ \E r \in { IF ~VMemStackIsInitialized
                THEN [ ptr |-> 0, allocatedSize |-> m_allocatedSize,
                       lastAllocationOffset |-> m_lastAllocationOffset,
                       committedSize |-> m_committedSize ]
                ELSE VMemStackAllocateImpl(FrameDescSize, FrameDescAlign, vmOk) } :
           /\ m_allocatedSize' = r.allocatedSize
           /\ m_lastAllocationOffset' = r.lastAllocationOffset
           /\ m_committedSize' = r.committedSize
           /\ IF r.ptr = 0
              THEN UNCHANGED << tokens, mem, m_liveFrame, frames, numFrames, lastPtr >>
              ELSE /\ mem' = StoreFrame(mem, r.ptr, m_liveFrame)
                   /\ m_liveFrame' = r.ptr
                   /\ tokens' = Append(tokens, [ data |-> r.ptr, depth |-> Depth + 1 ])
                   /\ frames' = Append(frames, [ addr |-> r.ptr,
                                                 before |-> VMemStackGetAllocatedSize ])
                   /\ numFrames' = numFrames + 1
                   /\ lastPtr' = 0
    /\ pages' = pages \cup Pages(m_committedSize, m_committedSize' - m_committedSize)
    /\ UNCHANGED << kind, m_buffer, m_bufferSize, m_liveSegment, m_freeSegmentList,
                    m_defaultSegmentSize, registered, segs, allocs, numAllocs >>

\* AllocatorFrame::Pop on the caller's i-th token: explicitly or from ~AllocatorFrame.
VMemStackPop(i) ==
    /\ kind = "vmstack"
    /\ \E r \in { IF CanPop(tokens[i]) THEN VMemStackPopImpl(tokens[i].data)
                  ELSE VMemStackNotPopped } :
           /\ m_liveFrame' = r.liveFrame
           /\ m_allocatedSize' = r.allocatedSize
           /\ tokens' = TokensAfterPop(i)
           /\ mem' = Remember(mem, tokens')
           /\ frames' = IF r.ok THEN FramesAfterPop(tokens[i].depth) ELSE frames
           /\ allocs' = IF r.ok THEN AllocsAfterPop(tokens[i].depth) ELSE allocs
           /\ lastPtr' = IF r.ok THEN 0 ELSE lastPtr
    /\ UNCHANGED << kind, pages, m_buffer, m_bufferSize, m_committedSize, m_lastAllocationOffset,
                    m_liveSegment, m_freeSegmentList, m_defaultSegmentSize, registered, segs,
                    numAllocs, numFrames >>

\* TVMemStackFrameAllocator::PopFrame(frame)
VMemStackPopFrame(i) == VMemStackPop(i)

\* ~AllocatorFrame()
VMemStackDestroyFrame(i) == VMemStackPop(i)

----------------------------------------------------------------------------
\* TStackFrameAllocator.  segs maps the address of every segment VirtualAlloc has
\* mapped (and VirtualFree has not unmapped) to the SegmentDescription stored there.

\* Where VirtualAlloc maps segments: MaxSegments places, each wide enough for
\* the largest segment a call of the model asks for.
SegmentPlaces == { 8 * PageSize + (k - 1) * (2 * PageSize) : k \in 1 .. MaxSegments }

Min(S) == CHOOSE x \in S : \A y \in S : x <= y

\* segmentSize given to TStackFrameAllocator::Initialize: none, and room for two
\* frames, a 16-byte allocation and 12 bytes more.
SegmentSizeInputs == { 0, SegDescSize + 4 * FrameDescSize + 4 }

\* SegmentDescription::GetBuffer
GetBuffer(segment) == Wrap(segment + SegDescSize)

\* SegmentDescription::GetBufferSize
GetBufferSize(s, segment) == WrapSize(s[segment].segmentSize - SegDescSize + SizeMod)

\* SegmentDescription::GetLink: packed & ~kFlagsMask
GetLink(s, segment) == s[segment].packed - (s[segment].packed % kMinAlignment)

\* SegmentDescription::IsExternallyManaged: (packed & kIsExternallyManaged) != 0
IsExternallyManaged(s, segment) == (s[segment].packed % 2) = kIsExternallyManaged

\* A variant that stores the link and drops the flags: packed = segment
SetLinkOnly(s, segment, link) ==
    [ s EXCEPT ![segment].packed = link ]

\* SegmentDescription::SetLink: packed = segment | (packed & kFlagsMask)
SetLink(s, segment, link) ==
    [ s EXCEPT ![segment].packed = link + (@ % kMinAlignment) ]

\* SegmentDescription(size)
NewSegment(size) == [ packed |-> 0, segmentSize |-> WrapSize(size), allocatedSize |-> 0 ]

\* The segments of the list that starts at segment, in order (at most fuel of them).
RECURSIVE SegmentList(_, _, _)
SegmentList(s, segment, fuel) ==
    IF segment = 0 \/ fuel = 0 \/ segment \notin DOMAIN s THEN << >>
    ELSE << segment >> \o SegmentList(s, GetLink(s, segment), fuel - 1)

LiveSegments == SegmentList(segs, m_liveSegment, MaxSegments + 1)
FreeSegments == SegmentList(segs, m_freeSegmentList, MaxSegments + 1)

SeqToSet(q) == { q[i] : i \in 1 .. Len(q) }

RECURSIVE SumAllocated(_, _)
SumAllocated(s, q) ==
    IF q = << >> THEN 0 ELSE s[Head(q)].allocatedSize + SumAllocated(s, Tail(q))

StackIsInitialized == m_defaultSegmentSize # 0

StackHasLiveFrame == m_liveFrame # 0

StackGetAllocatedSize == Wrap(SumAllocated(segs, LiveSegments))

StackIsOwnerOf(ptr) ==
    IF ~StackIsInitialized THEN FALSE
    ELSE \E segment \in SeqToSet(LiveSegments) :
             IsPointerInBuffer(ptr, GetBuffer(segment), segs[segment].allocatedSize)

\* TStackFrameAllocator::CanSatisfyAllocation
StackCanSatisfyAllocation(s, segment, size, alignment) ==
    CanSatisfyAllocation(GetBuffer(segment), GetBufferSize(s, segment),
                         s[segment].allocatedSize, size, alignment)

\* The size AllocateSegment asks VirtualAlloc for.
SegmentSizeFor(size, alignment) ==
    IF AlignTo(Wrap(size + alignment + SegDescSize), alignment) > m_defaultSegmentSize
    THEN AlignTo(Wrap(size + alignment + SegDescSize), alignment)
    ELSE m_defaultSegmentSize

\* VirtualAlloc maps the lowest free place and fails (0) when no place is left.
VirtualAlloc(s) ==
    IF SegmentPlaces \ DOMAIN s = {} THEN 0 ELSE Min(SegmentPlaces \ DOMAIN s)

\* new(ptr) SegmentDescription(segmentSize), when VirtualAlloc returned ptr.
NewSegmentAt(s, ptr, segmentSize) ==
    IF ptr = 0 THEN [ segment |-> 0, segs |-> s ]
    ELSE [ segment |-> ptr,
           segs |-> [ a \in (DOMAIN s) \cup { ptr } |->
                        IF a = ptr THEN NewSegment(segmentSize) ELSE s[a] ] ]

\* AllocateSegment: the address of the new segment (0: none) and segs with it.
StackAllocateSegment(s, size, alignment) ==
    NewSegmentAt(s, VirtualAlloc(s), SegmentSizeFor(size, alignment))

\* A variant that never finds a segment in the free list.
NoFreeFit(s, segment, size, alignment, fuel) == 0

\* The first segment of the free list, from segment on, that can hold the allocation.
RECURSIVE FirstFreeFit(_, _, _, _, _)
FirstFreeFit(s, segment, size, alignment, fuel) ==
    IF segment = 0 \/ fuel = 0 THEN 0
    ELSE IF StackCanSatisfyAllocation(s, segment, size, alignment) THEN segment
    ELSE FirstFreeFit(s, GetLink(s, segment), size, alignment, fuel - 1)

\* What FindFreeSegment stores in m_freeSegmentList when it takes segment from the list.
FreeListWithout(s, freeSegmentList, segment) == GetLink(s, segment)

\* A variant that returns null and clears m_lastAllocationOffset.
StackOffsetCleared ==
    [ ptr |-> 0, segs |-> segs, liveSegment |-> m_liveSegment,
      freeSegmentList |-> m_freeSegmentList, lastAllocationOffset |-> 0 ]

\* What the allocating calls return and leave when they change nothing.
StackUnchanged ==
    [ ptr |-> 0, segs |-> segs, liveSegment |-> m_liveSegment,
      freeSegmentList |-> m_freeSegmentList,
      lastAllocationOffset |-> m_lastAllocationOffset ]

\* FindFreeSegment, last step: the segment AllocateSegment returned becomes the live one.
LinkNewSegment(fresh) ==
    IF fresh.segment # 0
    THEN [ segment |-> fresh.segment,
           segs |-> SetLink(fresh.segs, fresh.segment, m_liveSegment),
           liveSegment |-> fresh.segment, freeSegmentList |-> m_freeSegmentList ]
    ELSE [ segment |-> 0, segs |-> segs, liveSegment |-> m_liveSegment,
           freeSegmentList |-> m_freeSegmentList ]

\* FindFreeSegment, second step: found is the first free segment that fits (0: none).
TakeFreeSegment(found, size, alignment) ==
    IF found # 0
    THEN [ segment |-> found, segs |-> SetLink(segs, found, m_liveSegment),
           liveSegment |-> found,
           freeSegmentList |-> FreeListWithout(segs, m_freeSegmentList, found) ]
    ELSE LinkNewSegment(StackAllocateSegment(segs, size, alignment))

\* FindFreeSegment: the segment found (0: none) and the lists as it leaves them.
StackFindFreeSegment(size, alignment) ==
    IF m_liveSegment # 0 /\ StackCanSatisfyAllocation(segs, m_liveSegment, size, alignment)
    THEN [ segment |-> m_liveSegment, segs |-> segs, liveSegment |-> m_liveSegment,
           freeSegmentList |-> m_freeSegmentList ]
    ELSE TakeFreeSegment(
             FirstFreeFit(segs, m_freeSegmentList, size, alignment, MaxSegments + 1),
             size, alignment)

\* AllocateImpl, after FindFreeSegment returned f and AllocateFromBuffer returned r.
AllocatedIn(f, r) ==
    [ ptr |-> r.ptr,
      segs |-> [ f.segs EXCEPT ![f.segment].allocatedSize = r.allocatedSize ],
      liveSegment |-> f.liveSegment, freeSegmentList |-> f.freeSegmentList,
      lastAllocationOffset |-> r.offset ]

\* AllocateImpl, after FindFreeSegment returned f.
AllocateFromSegment(f, size, alignment) ==
    IF f.segment = 0 THEN StackUnchanged
    ELSE AllocatedIn(f, AllocateFromBuffer(GetBuffer(f.segment),
                                           GetBufferSize(f.segs, f.segment),
                                           f.segs[f.segment].allocatedSize,
                                           size, alignment))

StackAllocateImpl(size, alignment) ==
    AllocateFromSegment(StackFindFreeSegment(size, alignment), size, alignment)

\* Allocate: the checks made before AllocateImpl.
StackAllocateChecked(size, alignment) ==
    IF ~StackIsInitialized THEN StackUnchanged
    ELSE IF size = 0 \/ ~IsPowerOfTwo(alignment) THEN StackUnchanged
    ELSE IF ~StackHasLiveFrame THEN StackUnchanged
    ELSE StackAllocateImpl(size, alignment)

\* lastAllocation == rawOldPtr, against the current live segment.
StackIsLastAllocation(oldPtr) ==
    Wrap(GetBuffer(m_liveSegment) + m_lastAllocationOffset) = oldPtr

\* The live segment with its allocatedSize set by the branch that reuses the memory.
ReallocatedInPlace(oldPtr, newAllocatedSize) ==
    [ ptr |-> oldPtr,
      segs |-> [ segs EXCEPT ![m_liveSegment].allocatedSize = newAllocatedSize ],
      liveSegment |-> m_liveSegment, freeSegmentList |-> m_freeSegmentList,
      lastAllocationOffset |-> m_lastAllocationOffset ]

\* A variant that always reuses the memory of oldPtr, whatever the segment holds.
StackReallocateAlwaysInPlace(oldPtr, oldSize, newSize, alignment) ==
    IF m_liveSegment \notin DOMAIN segs THEN StackUnchanged
    ELSE ReallocatedInPlace(oldPtr,
             ReallocatedSize(segs[m_liveSegment].allocatedSize, oldSize, newSize))

StackReallocateImpl(oldPtr, oldSize, newSize, alignment) ==
    IF ~StackIsInitialized THEN StackUnchanged
    ELSE IF newSize = 0 \/ ~IsPowerOfTwo(alignment) THEN StackUnchanged
    ELSE IF ~StackHasLiveFrame THEN StackUnchanged
    ELSE IF StackIsLastAllocation(oldPtr)
            /\ ReallocatedSize(segs[m_liveSegment].allocatedSize, oldSize, newSize)
                   <= GetBufferSize(segs, m_liveSegment)
    THEN ReallocatedInPlace(oldPtr,
             ReallocatedSize(segs[m_liveSegment].allocatedSize, oldSize, newSize))
    ELSE StackAllocateImpl(newSize, alignment)

\* liveSegment goes to the head of the free list, empty.
ReleasedToFreeList(s, liveSegment, freeSegmentList) ==
    [ SetLink(s, liveSegment, freeSegmentList) EXCEPT ![liveSegment].allocatedSize = 0 ]

\* The loop of PopImpl over the live segments, from liveSegment on.
RECURSIVE PopSegments(_, _, _, _, _)
PopSegments(s, liveSegment, freeSegmentList, frameDesc, fuel) ==
    IF liveSegment = 0 \/ fuel = 0
    THEN [ segs |-> s, liveSegment |-> liveSegment, freeSegmentList |-> freeSegmentList ]
    ELSE IF IsPointerInBuffer(frameDesc, GetBuffer(liveSegment), s[liveSegment].allocatedSize)
    THEN IF Wrap(frameDesc - GetBuffer(liveSegment) + AddrMod) = 0
         THEN [ segs |-> ReleasedToFreeList(s, liveSegment, freeSegmentList),
                liveSegment |-> GetLink(s, liveSegment),
                freeSegmentList |-> liveSegment ]
         ELSE [ segs |-> [ s EXCEPT ![liveSegment].allocatedSize =
                               WrapSize(Wrap(frameDesc - GetBuffer(liveSegment) + AddrMod)) ],
                liveSegment |-> liveSegment, freeSegmentList |-> freeSegmentList ]
    ELSE PopSegments(ReleasedToFreeList(s, liveSegment, freeSegmentList),
                     GetLink(s, liveSegment), liveSegment, frameDesc, fuel - 1)

\* What a pop returns and leaves when it changes nothing.
StackNotPopped ==
    [ ok |-> FALSE, liveFrame |-> m_liveFrame, segs |-> segs,
      liveSegment |-> m_liveSegment, freeSegmentList |-> m_freeSegmentList ]

\* PopImpl, after its loop left the lists as w.
PoppedTo(prevFrame, w) ==
    [ ok |-> TRUE, liveFrame |-> prevFrame, segs |-> w.segs,
      liveSegment |-> w.liveSegment, freeSegmentList |-> w.freeSegmentList ]

\* The result of PopImpl and the fields as it leaves them.
StackPopImpl(frameDesc) ==
    IF ~StackIsInitialized THEN StackNotPopped
    ELSE IF frameDesc # m_liveFrame THEN StackNotPopped
    ELSE PoppedTo(mem[frameDesc],
                  PopSegments(segs, m_liveSegment, m_freeSegmentList, frameDesc,
                              MaxSegments + 1))

\* The segments Release gives back with VirtualFree: those of the free list that
\* the allocator mapped itself.
ReleasedSegments == { segment \in SeqToSet(FreeSegments) : ~IsExternallyManaged(segs, segment) }

\* SegmentDescription::SetExternallyManaged(true): packed |= kIsExternallyManaged
SetExternallyManaged(s, segment) ==
    [ s EXCEPT ![segment].packed = @ - (@ % 2) + kIsExternallyManaged ]

\* Where the caller keeps the buffer it gives to RegisterSegment.
ExternalPlace == 4 * PageSize

\* (buffer, bufferSize) given to RegisterSegment: no buffer, a buffer that is not
\* aligned, one with room for the SegmentDescription only, and one with room for
\* a FrameDescription more.
RegisterInputs ==
    { << 0, SegDescSize + FrameDescSize >>,
      << ExternalPlace + 4, SegDescSize + FrameDescSize >>,
      << ExternalPlace, SegDescSize >>,
      << ExternalPlace, SegDescSize + FrameDescSize >> }

\* RegisterSegment.  The caller gives each buffer once, before it pushes a frame.
StackRegisterSegment(buffer, bufferSize) ==
    /\ kind = "stack"
    /\ buffer \notin registered
    /\ numFrames = 0
    /\ IF \/ ~StackIsInitialized
          \/ buffer = 0
          \/ bufferSize <= SegDescSize
          \/ ~IsAlignedTo(buffer, kMinAlignment)
       THEN UNCHANGED << segs, m_freeSegmentList, registered >>
       ELSE /\ segs' = SetExternallyManaged(
                           SetLink(NewSegmentAt(segs, buffer, bufferSize).segs, buffer,
                                   m_freeSegmentList),
                           buffer)
            /\ m_freeSegmentList' = buffer
            /\ registered' = registered \cup { buffer }
    /\ UNCHANGED << kind, pages, m_buffer, m_bufferSize, m_allocatedSize, m_committedSize,
                    m_lastAllocationOffset, m_liveFrame, m_liveSegment,
                    m_defaultSegmentSize, mem, tokens, allocs, numAllocs, frames,
                    numFrames, lastPtr >>

\* A variant that keeps the segment lists of the previous use.
StackInitializeKeepsLists(segmentSize) ==
    /\ kind = "stack"
    /\ IF StackIsInitialized \/ segmentSize = 0 \/ segmentSize > SizeMax
       THEN UNCHANGED << m_liveFrame, m_defaultSegmentSize, m_lastAllocationOffset, registered >>
       ELSE /\ m_liveFrame' = 0
            /\ m_defaultSegmentSize' = segmentSize
            /\ m_lastAllocationOffset' = segmentSize
            /\ registered' = {}
    /\ UNCHANGED << kind, pages, m_buffer, m_bufferSize, m_allocatedSize, m_committedSize, segs,
                    m_liveSegment, m_freeSegmentList,
                    mem, tokens, allocs, numAllocs, frames, numFrames, lastPtr >>

StackInitialize(segmentSize) ==
    /\ kind = "stack"
    /\ IF StackIsInitialized \/ segmentSize = 0 \/ segmentSize > SizeMax
       THEN UNCHANGED << m_liveSegment, m_liveFrame, m_freeSegmentList,
                         m_defaultSegmentSize, m_lastAllocationOffset, registered >>
       ELSE /\ m_liveSegment' = 0
            /\ m_liveFrame' = 0
            /\ m_freeSegmentList' = 0
            /\ m_defaultSegmentSize' = segmentSize
            /\ m_lastAllocationOffset' = segmentSize
            /\ registered' = {}
    /\ UNCHANGED << kind, pages, m_buffer, m_bufferSize, m_allocatedSize, m_committedSize, segs,
                    mem, tokens, allocs, numAllocs, frames, numFrames, lastPtr >>

StackRelease ==
    /\ kind = "stack"
    /\ IF ~StackIsInitialized \/ StackHasLiveFrame
       THEN UNCHANGED << m_defaultSegmentSize, segs, registered, allocs, frames, lastPtr >>
       ELSE /\ m_defaultSegmentSize' = 0
            /\ segs' = [ segment \in (DOMAIN segs) \ ReleasedSegments |-> segs[segment] ]
            /\ registered' = {}
            /\ allocs' = {}
            /\ frames' = << >>
            /\ lastPtr' = 0
    /\ UNCHANGED << kind, pages, m_buffer, m_bufferSize, m_allocatedSize, m_committedSize,
                    m_lastAllocationOffset, m_liveFrame, m_liveSegment, m_freeSegmentList,
                    mem, tokens, numAllocs, numFrames >>

StackAllocate(size, alignment) ==
    /\ kind = "stack"
    /\ MayAllocate
    /\ \E r \in { StackAllocateChecked(size, alignment) } :
           /\ segs' = r.segs
           /\ m_liveSegment' = r.liveSegment
           /\ m_freeSegmentList' = r.freeSegmentList
           /\ m_lastAllocationOffset' = r.lastAllocationOffset
           /\ allocs' = AllocsAfterAlloc(size, r.ptr)
           /\ numAllocs' = IF r.ptr # 0 THEN numAllocs + 1 ELSE numAllocs
           /\ lastPtr' = IF r.ptr # 0 THEN r.ptr ELSE lastPtr
    /\ UNCHANGED << kind, pages, m_buffer, m_bufferSize, m_allocatedSize, m_committedSize,
                    m_liveFrame, m_defaultSegmentSize, registered, mem, tokens, frames, numFrames >>

StackReallocate(a, newSize, alignment) ==
    /\ kind = "stack"
    /\ \E r \in { StackReallocateImpl(a.ptr, a.size, newSize, alignment) } :
           /\ Moved(a, r.ptr) => MayAllocate
           /\ segs' = r.segs
           /\ m_liveSegment' = r.liveSegment
           /\ m_freeSegmentList' = r.freeSegmentList
           /\ m_lastAllocationOffset' = r.lastAllocationOffset
           /\ mem' \in IF Moved(a, r.ptr)
                       THEN MemAfterCopy(mem, r.ptr, NumBytesToCopy(a.size, newSize))
                       ELSE { mem }
           /\ allocs' = AllocsAfterRealloc(a, newSize, r.ptr)
           /\ numAllocs' = IF Moved(a, r.ptr) THEN numAllocs + 1 ELSE numAllocs
           /\ lastPtr' = IF r.ptr # 0 THEN r.ptr ELSE lastPtr
    /\ UNCHANGED << kind, pages, m_buffer, m_bufferSize, m_allocatedSize, m_committedSize,
                    m_liveFrame, m_defaultSegmentSize, registered, tokens, frames, numFrames >>

StackDeallocate(a) ==
    /\ kind = "stack"
    /\ UNCHANGED vars

\* PushFrame: PushImpl, and the AllocatorFrame it hands to the caller.
StackPushFrame ==
    /\ kind = "stack"
    /\ MayPush
    /\ \E r \in { IF ~StackIsInitialized THEN StackUnchanged
                  ELSE StackAllocateImpl(FrameDescSize, FrameDescAlign) } :
           /\ segs' = r.segs
           /\ m_liveSegment' = r.liveSegment
           /\ m_freeSegmentList' = r.freeSegmentList
           /\ m_lastAllocationOffset' = r.lastAllocationOffset
           /\ IF r.ptr = 0
              THEN UNCHANGED << tokens, mem, m_liveFrame, frames, numFrames, lastPtr >>
              ELSE /\ mem' = StoreFrame(mem, r.ptr, m_liveFrame)
                   /\ m_liveFrame' = r.ptr
                   /\ tokens' = Append(tokens, [ data |-> r.ptr, depth |-> Depth + 1 ])
                   /\ frames' = Append(frames, [ addr |-> r.ptr,
                                                 before |-> StackGetAllocatedSize ])
                   /\ numFrames' = numFrames + 1
                   /\ lastPtr' = 0
    /\ UNCHANGED << kind, pages, m_buffer, m_bufferSize, m_allocatedSize, m_committedSize,
                    m_defaultSegmentSize, registered, allocs, numAllocs >>

\* AllocatorFrame::Pop on the caller's i-th token.
StackPop(i) ==
    /\ kind = "stack"
    /\ \E r \in { IF CanPop(tokens[i]) THEN StackPopImpl(tokens[i].data)
                  ELSE StackNotPopped } :
           /\ m_liveFrame' = r.liveFrame
           /\ segs' = r.segs
           /\ m_liveSegment' = r.liveSegment
           /\ m_freeSegmentList' = r.freeSegmentList
           /\ tokens' = TokensAfterPop(i)
           /\ mem' = Remember(mem, tokens')
           /\ frames' = IF r.ok THEN FramesAfterPop(tokens[i].depth) ELSE frames
           /\ allocs' = IF r.ok THEN AllocsAfterPop(tokens[i].depth) ELSE allocs
           /\ lastPtr' = IF r.ok THEN 0 ELSE lastPtr
    /\ UNCHANGED << kind, pages, m_buffer, m_bufferSize, m_allocatedSize, m_committedSize,
                    m_lastAllocationOffset, m_defaultSegmentSize, registered, numAllocs, numFrames >>

\* TStackFrameAllocator::PopFrame(frame)
StackPopFrame(i) == StackPop(i)

\* ~AllocatorFrame()
StackDestroyFrame(i) == StackPop(i)

----------------------------------------------------------------------------
\* The object after its default constructor.  TLinearAllocator() and
\* TVMemLinearAllocator() set m_buffer only; the two frame allocators set every field.

HasUninitializedFields == { "linear", "linear8", "vmlinear" }

\* The fields after the default constructor, and the caller holding nothing.
Constructed ==
    /\ m_buffer = 0
    /\ m_bufferSize \in IF kind \in HasUninitializedFields THEN Indeterminate ELSE { 0 }
    /\ m_allocatedSize \in IF kind \in HasUninitializedFields THEN Indeterminate ELSE { 0 }
    /\ m_lastAllocationOffset \in
           IF kind \in HasUninitializedFields THEN Indeterminate ELSE { 0 }
    /\ m_committedSize \in IF kind = "vmlinear" THEN Indeterminate ELSE { 0 }
    /\ m_liveFrame = 0
    /\ m_liveSegment = 0
    /\ m_freeSegmentList = 0
    /\ m_defaultSegmentSize = 0
    /\ registered = {}
    /\ segs = << >>
    /\ mem = << >>
    /\ pages = {}
    /\ tokens = << >>
    /\ allocs = {}
    /\ frames = << >>
    /\ lastPtr = 0
    /\ numAllocs = 0
    /\ numFrames = 0

Init == kind \in Kinds /\ Constructed

\* A TLinearAllocator<uint8_t> after its default constructor.
NarrowInit == kind = "linear8" /\ Constructed

Next ==
    \/ \E in \in LinearInputs : LinearInitialize(in[1], in[2])
    \/ LinearReset
    \/ LinearRelease
    \/ \E in \in AllocateInputs : LinearAllocate(in[1], in[2])
    \/ \E a \in OldAllocs, in \in AllocInputs : LinearReallocate(a, in[1], in[2])
    \/ \E a \in OldAllocs : LinearDeallocate(a)
    \/ \E bufferSize \in VMemSizeInputs, vmOk \in BOOLEAN :
           VMemLinearInitialize(bufferSize, vmOk)
    \/ \E vmOk \in BOOLEAN : VMemLinearReset(vmOk)
    \/ \E vmOk \in BOOLEAN : VMemLinearRelease(vmOk)
    \/ \E in \in AllocateInputs, vmOk \in BOOLEAN : VMemLinearAllocate(in[1], in[2], vmOk)
    \/ \E a \in OldAllocs, in \in AllocInputs, vmOk \in BOOLEAN :
           VMemLinearReallocate(a, in[1], in[2], vmOk)
    \/ \E a \in OldAllocs : VMemLinearDeallocate(a)
    \/ \E bufferSize \in VMemSizeInputs, vmOk \in BOOLEAN :
           VMemStackInitialize(bufferSize, vmOk)
    \/ \E vmOk \in BOOLEAN : VMemStackRelease(vmOk)
    \/ \E minSlack \in SlackInputs, vmOk \in BOOLEAN : VMemStackDecommitSlack(minSlack, vmOk)
    \/ \E in \in AllocateInputs, vmOk \in BOOLEAN : VMemStackAllocate(in[1], in[2], vmOk)
    \/ \E a \in OldAllocs, in \in AllocInputs, vmOk \in BOOLEAN :
           VMemStackReallocate(a, in[1], in[2], vmOk)
    \/ \E a \in OldAllocs : VMemStackDeallocate(a)
    \/ \E vmOk \in BOOLEAN : VMemStackPushFrame(vmOk)
    \/ \E i \in 1 .. Len(tokens) : VMemStackPopFrame(i)
    \/ \E i \in 1 .. Len(tokens) : VMemStackDestroyFrame(i)
    \/ AllocatorFramePopEmpty
    \/ \E i \in 1 .. Len(tokens) : AllocatorFrameMoveConstruct(i)
    \/ \E i, j \in 1 .. Len(tokens) : AllocatorFrameMoveAssign(i, j)
    \/ \E segmentSize \in SegmentSizeInputs : StackInitialize(segmentSize)
    \/ StackRelease
    \/ \E in \in RegisterInputs : StackRegisterSegment(in[1], in[2])
    \/ \E in \in AllocateInputs : StackAllocate(in[1], in[2])
    \/ \E a \in OldAllocs, in \in AllocInputs : StackReallocate(a, in[1], in[2])
    \/ \E a \in OldAllocs : StackDeallocate(a)
    \/ StackPushFrame
    \/ \E i \in 1 .. Len(tokens) : StackPopFrame(i)
    \/ \E i \in 1 .. Len(tokens) : StackDestroyFrame(i)

Spec == Init /\ [][Next]_vars

\* The operations of TLinearAllocator.
NarrowNext ==
    \/ \E in \in LinearInputs : LinearInitialize(in[1], in[2])
    \/ LinearReset
    \/ LinearRelease
    \/ \E in \in AllocateInputs : LinearAllocate(in[1], in[2])
    \/ \E a \in OldAllocs, in \in AllocInputs : LinearReallocate(a, in[1], in[2])
    \/ \E a \in OldAllocs : LinearDeallocate(a)

NarrowSpec == NarrowInit /\ [][NarrowNext]_vars

----------------------------------------------------------------------------
\* The Allocator interface and the frame interface, whatever the class.

IsInitialized == IF kind = "stack" THEN StackIsInitialized ELSE m_buffer # 0

IsOwnerOf(ptr) ==
    CASE IsTLinearAllocator -> LinearIsOwnerOf(ptr)
      [] kind = "vmlinear" -> VMemLinearIsOwnerOf(ptr)
      [] kind = "vmstack" -> VMemStackIsOwnerOf(ptr)
      [] kind = "stack" -> StackIsOwnerOf(ptr)

GetAllocatedSize == IF kind = "stack" THEN StackGetAllocatedSize ELSE m_allocatedSize

HasLiveFrame == m_liveFrame # 0

\* A step of Allocate(size, alignment).
Allocate(size, alignment) ==
    \/ LinearAllocate(size, alignment)
    \/ \E vmOk \in BOOLEAN : VMemLinearAllocate(size, alignment, vmOk)
    \/ \E vmOk \in BOOLEAN : VMemStackAllocate(size, alignment, vmOk)
    \/ StackAllocate(size, alignment)

\* The pointer that call returns.
Allocated(size, alignment, vmOk) ==
    CASE IsTLinearAllocator -> LinearAllocateImpl(size, alignment).ptr
      [] kind = "vmlinear" -> VMemLinearAllocateImpl(size, alignment, vmOk).ptr
      [] kind = "vmstack" -> VMemStackAllocateChecked(size, alignment, vmOk).ptr
      [] kind = "stack" -> StackAllocateChecked(size, alignment).ptr

\* A step of Reallocate(a.ptr, a.size, newSize, alignment).
Reallocate(a, newSize, alignment, vmOk) ==
    \/ LinearReallocate(a, newSize, alignment)
    \/ VMemLinearReallocate(a, newSize, alignment, vmOk)
    \/ VMemStackReallocate(a, newSize, alignment, vmOk)
    \/ StackReallocate(a, newSize, alignment)

\* The pointer that call returns.
Reallocated(a, newSize, alignment, vmOk) ==
    CASE IsTLinearAllocator -> LinearReallocateImpl(a.ptr, a.size, newSize, alignment).ptr
      [] kind = "vmlinear" ->
             VMemLinearReallocateImpl(a.ptr, a.size, newSize, alignment, vmOk).ptr
      [] kind = "vmstack" ->
             VMemStackReallocateImpl(a.ptr, a.size, newSize, alignment, vmOk).ptr
      [] kind = "stack" -> StackReallocateImpl(a.ptr, a.size, newSize, alignment).ptr

\* A step of Deallocate(a.ptr, a.size).
Deallocate(a) ==
    \/ LinearDeallocate(a)
    \/ VMemLinearDeallocate(a)
    \/ VMemStackDeallocate(a)
    \/ StackDeallocate(a)

\* A step of AllocatorFrame::Pop on the caller's i-th AllocatorFrame.
Pop(i) == VMemStackPop(i) \/ StackPop(i)

\* What that call returns.
Popped(i) ==
    /\ CanPop(tokens[i])
    /\ CASE kind = "vmstack" -> VMemStackPopImpl(tokens[i].data).ok
         [] kind = "stack" -> StackPopImpl(tokens[i].data).ok
         [] OTHER -> FALSE

----------------------------------------------------------------------------
\* Properties of the allocators.

\* C1: on every allocator, whenever Allocate(size, alignment) returns a non-null p,
\* p is a multiple of alignment, IsOwnerOf(p) and IsOwnerOf(p + size - 1) are true
\* and IsOwnerOf(p + size) is false.
C1_AllocatedBlockIsAlignedAndOwned ==
    [][ \A in \in AllocInputs :
            (Allocate(in[1], in[2]) /\ numAllocs' = numAllocs + 1)
                => /\ lastPtr' # 0
                   /\ lastPtr' % in[2] = 0
                   /\ IsOwnerOf(lastPtr)'
                   /\ IsOwnerOf(Wrap(lastPtr + in[1] - 1))'
                   /\ ~IsOwnerOf(Wrap(lastPtr + in[1]))' ]_vars


\* C2: on every allocator, a successful Reallocate whose old_ptr is null or is not
\* the most recent allocation returns a fresh pointer, different from old_ptr and
\* from every earlier allocation, and allocated_size grows by new_size and the
\* padding in front of it (fewer bytes than the alignment).
C2_ReallocateOfOlderIsFresh ==
    [][ \A a \in OldAllocs, in \in AllocInputs, vmOk \in BOOLEAN :
            \A p \in { Reallocated(a, in[1], in[2], vmOk) } :
                (/\ Reallocate(a, in[1], in[2], vmOk)
                 /\ p # 0
                 /\ a.ptr = 0 \/ a.ptr # lastPtr)
                    => /\ p # a.ptr
                       /\ p \notin { b.ptr : b \in allocs }
                       /\ GetAllocatedSize' - GetAllocatedSize - in[1]
                              \in 0 .. (in[2] - 1) ]_vars

\* The room left behind the allocation a for it to become newSize bytes.
HasRoomFor(a, newSize) ==
    \/ newSize <= a.size
    \/ /\ kind # "stack"
       /\ Wrap(a.ptr - m_buffer + AddrMod) + newSize <= m_bufferSize
    \/ /\ kind = "stack"
       /\ \E segment \in DOMAIN segs :
              /\ a.ptr >= GetBuffer(segment)
              /\ a.ptr - GetBuffer(segment) + newSize <= GetBufferSize(segs, segment)

\* C3: on every allocator, a successful Reallocate of the immediately preceding
\* allocation, shrinking or growing within the remaining room, returns that same
\* pointer and changes allocated_size by exactly new_size - old_size.
C3_ReallocateOfLatestIsInPlace ==
    [][ \A a \in OldAllocs, in \in AllocInputs, vmOk \in BOOLEAN :
            \A p \in { Reallocated(a, in[1], in[2], vmOk) } :
                (/\ Reallocate(a, in[1], in[2], vmOk)
                 /\ p # 0
                 /\ a.ptr # 0 /\ a.ptr = lastPtr
                 /\ HasRoomFor(a, in[1]))
                    => /\ p = a.ptr
                       /\ GetAllocatedSize' = GetAllocatedSize + in[1] - a.size ]_vars

\* The caller's i-th AllocatorFrame is the one PushFrame gave for the topmost frame.
IsTopmost(i) ==
    /\ tokens[i].depth = Len(frames)
    /\ frames[Len(frames)].addr = tokens[i].data

\* C4: on both frame-capable allocators, a successful PushFrame followed by any
\* allocations and then the pop of that frame returns GetAllocatedSize to exactly
\* the value it had immediately before the push.
C4_PopRestoresAllocatedSize ==
    [][ \A i \in 1 .. Len(tokens) :
            (Pop(i) /\ Popped(i) /\ frames # << >> /\ IsTopmost(i))
                => GetAllocatedSize' = frames[Len(frames)].before ]_vars

\* The caller's i-th AllocatorFrame is for a frame that is live but not the topmost.
IsBelowTopmost(i) ==
    /\ tokens[i].depth < Len(frames)
    /\ frames[tokens[i].depth].addr = tokens[i].data

\* C5: popping a frame that is not the topmost live frame returns false and changes
\* no state: the live frame, every allocated size, the segment lists and the
\* committed size stay as they were.
C5_PopOfLowerFrameIsRefused ==
    [][ \A i \in 1 .. Len(tokens) :
            (Pop(i) /\ IsBelowTopmost(i))
                => /\ ~Popped(i)
                   /\ UNCHANGED << m_liveFrame, m_allocatedSize, m_committedSize, segs,
                                   m_liveSegment, m_freeSegmentList >> ]_vars

\* C6: frames are strictly stack-disciplined: of the live frames F1..Fn a pop
\* succeeds only for Fn; after it the live frame is F(n-1), none when n = 1; and
\* HasLiveFrame is true exactly while some pushed frame has not been popped.
C6_FramesAreStackDisciplined ==
    [][ /\ \A i \in 1 .. Len(tokens) :
               (Pop(i) /\ Popped(i))
                   => /\ frames # << >> /\ IsTopmost(i)
                      /\ m_liveFrame' = IF Len(frames) = 1 THEN 0
                                        ELSE frames[Len(frames) - 1].addr
        /\ HasLiveFrame' <=> frames' # << >> ]_vars

\* C7: after a frame is popped, IsOwnerOf returns false for every pointer that was
\* allocated inside that frame.
C7_PoppedAllocationsAreNotOwned ==
    [][ \A i \in 1 .. Len(tokens) :
            (Pop(i) /\ Popped(i) /\ frames # << >> /\ IsTopmost(i))
                => \A a \in allocs :
                       a.depth >= tokens[i].depth => ~IsOwnerOf(a.ptr)' ]_vars

\* C8: in every reachable state of an initialized linear, VM linear or VM
\* stack-frame allocator, allocated_size <= buffer_size.
C8_AllocatedWithinBuffer ==
    (kind \in { "linear", "vmlinear", "vmstack" } /\ IsInitialized)
        => m_allocatedSize <= m_bufferSize

\* The buffer of a linear allocator is full after two allocations.
C8_Witness ==
    /\ kind = "linear" /\ IsInitialized
    /\ numAllocs = 2
    /\ m_allocatedSize = m_bufferSize

\* The allocator is a TLinearAllocator or a TVMemLinearAllocator.
IsLinearKind == kind \in { "linear", "vmlinear" }

IsVMemKind == kind \in { "vmlinear", "vmstack" }

C11_CommittedWithinBuffer ==
    (IsVMemKind /\ IsInitialized) => m_committedSize <= m_bufferSize

\* The bytes needed to align address.
Padding(address, alignment) == (alignment - (address % alignment)) % alignment

\* padding + size <= buffer_size - allocated_size
Fits(size, alignment) ==
    Padding(m_buffer + m_allocatedSize, alignment) + size <= m_bufferSize - m_allocatedSize

\* The arguments Allocate accepts.
ValidInputs == { in \in AllocateInputs : in[1] # 0 /\ IsPowerOfTwo(in[2]) }

\* What a successful Allocate(size, alignment) returns and leaves in allocated_size.
AllocatedAtHead(r, size, alignment) ==
    /\ r.ptr = m_buffer + m_allocatedSize + Padding(m_buffer + m_allocatedSize, alignment)
    /\ r.allocatedSize = m_allocatedSize + Padding(m_buffer + m_allocatedSize, alignment) + size

\* C12 as stated: on a linear or VM linear allocator, Allocate(size, alignment)
\* with valid arguments succeeds exactly when padding + size <= buffer_size -
\* allocated_size, whether or not the virtual memory commit succeeds; on success it
\* returns base + allocated_size + padding and allocated_size grows by padding + size.
C12_SucceedsExactlyWhenFits ==
    \A in \in ValidInputs :
        /\ (kind = "linear" /\ IsInitialized) =>
               \A r \in { LinearAllocateImpl(in[1], in[2]) } :
                   /\ (r.ptr # 0) <=> Fits(in[1], in[2])
                   /\ (r.ptr # 0) => AllocatedAtHead(r, in[1], in[2])
        /\ (kind = "vmlinear" /\ IsInitialized) =>
               \A vmOk \in BOOLEAN :
                   \A r \in { VMemLinearAllocateImpl(in[1], in[2], vmOk) } :
                       /\ (r.ptr # 0) <=> Fits(in[1], in[2])
                       /\ (r.ptr # 0) => AllocatedAtHead(r, in[1], in[2])

\* The memory of the allocation is committed already, or VirtualCommit succeeds.
CanCommit(size, alignment, vmOk) ==
    \/ vmOk
    \/ m_allocatedSize + Padding(m_buffer + m_allocatedSize, alignment) + size
           <= m_committedSize

\* C12: on a linear or VM linear allocator, Allocate(size, alignment) with valid
\* arguments succeeds exactly when padding + size <= buffer_size - allocated_size
\* and, on the VM linear allocator, the memory is committed or can be; on success
\* it returns base + allocated_size + padding and allocated_size grows by
\* padding + size.
C12_SucceedsExactlyWhenFitsAndCommits ==
    \A in \in ValidInputs :
        /\ (kind = "linear" /\ IsInitialized) =>
               \A r \in { LinearAllocateImpl(in[1], in[2]) } :
                   /\ (r.ptr # 0) <=> Fits(in[1], in[2])
                   /\ (r.ptr # 0) => AllocatedAtHead(r, in[1], in[2])
        /\ (kind = "vmlinear" /\ IsInitialized) =>
               \A vmOk \in BOOLEAN :
                   \A r \in { VMemLinearAllocateImpl(in[1], in[2], vmOk) } :
                       /\ (r.ptr # 0) <=> (Fits(in[1], in[2]) /\ CanCommit(in[1], in[2], vmOk))
                       /\ (r.ptr # 0) => AllocatedAtHead(r, in[1], in[2])

\* An exact fit of the rest of the buffer has succeeded and Allocate(1, 1) returns null.
C12_Witness ==
    /\ kind \in { "linear", "vmlinear" }
    /\ IsInitialized
    /\ lastPtr # 0
    /\ numAllocs > 1
    /\ m_allocatedSize = m_bufferSize
    /\ ~Fits(1, 1)

\* C13: every Allocate or Reallocate that returns null (out of memory, overflow,
\* invalid argument, failed commit) leaves the allocator as it was: allocated
\* size, committed size, last allocation offset, live frame and segment lists.
C13_NullLeavesStateUnchanged ==
    /\ kind = "linear" =>
           \A r \in { LinearAllocateImpl(in[1], in[2]) : in \in AllocateInputs }
                  \cup { LinearReallocateImpl(a.ptr, a.size, in[1], in[2]) :
                             a \in OldAllocs, in \in AllocInputs } :
               r.ptr = 0 => /\ r.allocatedSize = m_allocatedSize
                            /\ r.lastAllocationOffset = m_lastAllocationOffset
    /\ kind = "vmlinear" =>
           \A r \in { VMemLinearAllocateImpl(in[1], in[2], vmOk) :
                         in \in AllocateInputs, vmOk \in BOOLEAN }
                  \cup { VMemLinearReallocateImpl(a.ptr, a.size, in[1], in[2], vmOk) :
                             a \in OldAllocs, in \in AllocInputs, vmOk \in BOOLEAN } :
               r.ptr = 0 => /\ r.allocatedSize = m_allocatedSize
                            /\ r.lastAllocationOffset = m_lastAllocationOffset
                            /\ r.committedSize = m_committedSize
    /\ kind = "vmstack" =>
           /\ \A r \in { VMemStackAllocateChecked(in[1], in[2], vmOk) :
                            in \in AllocateInputs, vmOk \in BOOLEAN } :
                  r.ptr = 0 => /\ r.allocatedSize = m_allocatedSize
                               /\ r.lastAllocationOffset = m_lastAllocationOffset
                               /\ r.committedSize = m_committedSize
           /\ \A r \in { VMemStackReallocateImpl(a.ptr, a.size, in[1], in[2], vmOk) :
                            a \in OldAllocs, in \in AllocInputs, vmOk \in BOOLEAN } :
                  r.ptr = 0 => /\ r.allocatedSize = m_allocatedSize
                               /\ r.lastAllocationOffset = m_lastAllocationOffset
                               /\ r.committedSize = m_committedSize
    /\ kind = "stack" =>
           \A r \in { StackAllocateChecked(in[1], in[2]) : in \in AllocateInputs }
                  \cup { StackReallocateImpl(a.ptr, a.size, in[1], in[2]) :
                             a \in OldAllocs, in \in AllocInputs } :
               r.ptr = 0 => /\ r.segs = segs
                            /\ r.liveSegment = m_liveSegment
                            /\ r.freeSegmentList = m_freeSegmentList
                            /\ r.lastAllocationOffset = m_lastAllocationOffset

\* With allocations made, Allocate of a page returns null on a frame allocator
\* that has a live frame, and so does Reallocate of the latest allocation.
C13_Witness ==
    /\ kind \in { "vmstack", "stack" }
    /\ IsInitialized
    /\ HasLiveFrame
    /\ lastPtr # 0
    /\ \E a \in OldAllocs :
           /\ a.ptr = lastPtr
           /\ \A vmOk \in BOOLEAN : Reallocated(a, PageSize, 1, vmOk) = 0
    /\ kind = "vmstack" => VMemStackAllocateChecked(PageSize, 1, TRUE).ptr = 0
    /\ kind = "stack" => StackAllocateChecked(PageSize, 1).ptr = 0

\* C14: on every allocator, the segmented one that maps a fresh segment included,
\* Allocate never returns a pointer for a request whose aligned start or whose
\* end wraps past the top of the address space.
C14_NoPointerForWrappedRequest ==
    [][ \A in \in AllocateInputs :
            (Allocate(in[1], in[2]) /\ numAllocs' = numAllocs + 1)
                => lastPtr' + in[1] <= AddrMod ]_vars

\* C15: on all four allocators Allocate and Reallocate return null when the
\* allocator is not initialized, when the requested size is 0, and when the
\* alignment is not a power of two (0 included).
C15_InvalidCallReturnsNull ==
    \A in \in AllocateInputs, vmOk \in BOOLEAN :
        (~IsInitialized \/ in[1] = 0 \/ in[2] \notin { 2 ^ k : k \in 0 .. (PtrBits - 1) })
            => /\ Allocated(in[1], in[2], vmOk) = 0
               /\ \A a \in OldAllocs : Reallocated(a, in[1], in[2], vmOk) = 0

\* An allocator that has allocated and still allocates one byte, and returns
\* null for size 0 and for the alignments 0 and 3, from Allocate and from
\* Reallocate of its latest allocation.
C15_Witness ==
    /\ IsInitialized
    /\ lastPtr # 0
    /\ Allocated(1, 1, TRUE) # 0
    /\ Allocated(0, 8, TRUE) = 0
    /\ Allocated(1, 3, TRUE) = 0
    /\ Allocated(1, 0, TRUE) = 0
    /\ \E a \in OldAllocs :
           /\ a.ptr = lastPtr
           /\ Reallocated(a, 1, 1, TRUE) # 0
           /\ Reallocated(a, 0, 8, TRUE) = 0
           /\ Reallocated(a, 1, 3, TRUE) = 0
           /\ Reallocated(a, 1, 0, TRUE) = 0

\* C16: on an allocator that is not initialized (default-constructed, after a
\* rejected Initialize, after Release) GetAllocatedSize and GetCommittedSize
\* return 0, IsOwnerOf returns false for every pointer and HasLiveFrame is false.
C16_UninitializedQueriesReturnZero ==
    ~IsInitialized =>
        /\ GetAllocatedSize = 0
        /\ IsVMemKind => m_committedSize = 0
        /\ \A ptr \in { 0, PageSize + 3, ReserveBase, GetBuffer(Min(SegmentPlaces)) } :
               ~IsOwnerOf(ptr)
        /\ ~HasLiveFrame

IsFrameKind == kind \in { "vmstack", "stack" }

\* C17: on both frame allocators, Allocate and Reallocate called while no frame
\* is live (every frame the caller pushed has been popped) return null and change
\* nothing: allocations are only possible between a push and its pop.
C17_NoAllocationWithoutLiveFrame ==
    (IsFrameKind /\ frames = << >>) =>
        /\ \A in \in AllocateInputs, vmOk \in BOOLEAN :
               /\ Allocated(in[1], in[2], vmOk) = 0
               /\ \A a \in OldAllocs : Reallocated(a, in[1], in[2], vmOk) = 0
        /\ kind = "stack" =>
               \A r \in { StackAllocateChecked(in[1], in[2]) : in \in AllocateInputs }
                      \cup { StackReallocateImpl(a.ptr, a.size, in[1], in[2]) :
                                 a \in OldAllocs, in \in AllocInputs } :
                   /\ r.segs = segs
                   /\ r.liveSegment = m_liveSegment
                   /\ r.freeSegmentList = m_freeSegmentList
                   /\ r.lastAllocationOffset = m_lastAllocationOffset
        /\ kind = "vmstack" =>
               /\ \A r \in { VMemStackAllocateChecked(in[1], in[2], vmOk) :
                                in \in AllocateInputs, vmOk \in BOOLEAN } :
                      /\ r.allocatedSize = m_allocatedSize
                      /\ r.lastAllocationOffset = m_lastAllocationOffset
                      /\ r.committedSize = m_committedSize
               /\ \A r \in { VMemStackReallocateImpl(a.ptr, a.size, in[1], in[2], vmOk) :
                                a \in OldAllocs, in \in AllocInputs, vmOk \in BOOLEAN } :
                      /\ r.allocatedSize = m_allocatedSize
                      /\ r.lastAllocationOffset = m_lastAllocationOffset
                      /\ r.committedSize = m_committedSize

\* A step of Release.
Release == (\E vmOk \in BOOLEAN : VMemStackRelease(vmOk)) \/ StackRelease

\* C18: Release on a frame allocator that has a live frame (a frame the caller
\* pushed and has not popped) releases nothing and changes no state: the
\* allocator stays initialized and the live frame, the segments, the reserved
\* range, the allocated and committed sizes are untouched.
C18_ReleaseWithLiveFrameChangesNothing ==
    [][ (Release /\ frames # << >>) => (IsInitialized' /\ UNCHANGED allocatorVars) ]_vars

\* The segments the allocator mapped with VirtualAlloc and has not unmapped.
OwnedSegments == (DOMAIN segs) \cap SegmentPlaces

\* C19: after Release of the segmented allocator with no live frame, every
\* segment it mapped since Initialize has been given back with VirtualFree,
\* whatever pushes, allocations, pops and RegisterSegment calls came before.
C19_ReleaseLeaksNoSegment ==
    [][ (StackRelease /\ StackIsInitialized /\ ~StackHasLiveFrame)
            => OwnedSegments' = {} ]_vars

\* C20: a segment given to RegisterSegment enters the free list marked
\* externally managed, keeps the mark through every move between the free list
\* and the live segments, and no operation, Release included, passes it to
\* VirtualFree.
C20_RegisteredSegmentStaysExternal ==
    [][ /\ \A in \in RegisterInputs :
               (StackRegisterSegment(in[1], in[2]) /\ registered' # registered)
                   => /\ m_freeSegmentList' = in[1]
                      /\ IsExternallyManaged(segs', in[1])
        /\ \A buffer \in registered :
               /\ buffer \in DOMAIN segs'
               /\ IsExternallyManaged(segs', buffer) ]_vars

\* A registered segment has held a frame, has gone back to the free list, and
\* Release has left it in place with its mark.
C20_Witness ==
    /\ kind = "stack"
    /\ ~StackIsInitialized
    /\ numFrames > 0
    /\ ExternalPlace \in DOMAIN segs
    /\ IsExternallyManaged(segs, ExternalPlace)
    /\ ExternalPlace \in SeqToSet(FreeSegments)

\* What Allocate(size, alignment) returns on a buffer nothing was allocated from.
FirstAllocation(size, alignment, vmOk) ==
    IF /\ size # 0
       /\ IsPowerOfTwo(alignment)
       /\ Padding(m_buffer, alignment) + size <= m_bufferSize
       /\ m_buffer + Padding(m_buffer, alignment) + size <= AddrMod
       /\ kind = "vmlinear" => vmOk
    THEN m_buffer + Padding(m_buffer, alignment)
    ELSE 0

\* A step of Initialize on a linear or VM linear allocator that succeeds.
LinearKindInitialized ==
    /\ \/ \E in \in LinearInputs : LinearInitialize(in[1], in[2])
       \/ \E bufferSize \in VMemSizeInputs : VMemLinearInitialize(bufferSize, TRUE)
    /\ ~IsInitialized
    /\ IsInitialized'

\* A step of Reset on an initialized linear or VM linear allocator, the decommit succeeding.
LinearKindReset ==
    /\ \/ LinearReset
       \/ \E vmOk \in BOOLEAN : VMemLinearReset(vmOk) /\ (vmOk \/ m_committedSize = 0)
    /\ IsInitialized

\* C21: Reset on an initialized linear or VM linear allocator, the decommit
\* succeeding, restores the state that followed Initialize: allocated size and
\* committed size are 0 and the next Allocate returns the address the same
\* Allocate returns right after Initialize.
C21_ResetRestoresInitialState ==
    [][ (LinearKindInitialized \/ LinearKindReset)
            => /\ m_allocatedSize' = 0
               /\ kind = "vmlinear" => m_committedSize' = 0
               /\ \A in \in AllocateInputs, vmOk \in BOOLEAN :
                      Allocated(in[1], in[2], vmOk)' = FirstAllocation(in[1], in[2], vmOk)' ]_vars

\* An initialized linear or VM linear allocator with allocations (and committed
\* memory) on which Allocate no longer returns the first address: Reset has
\* state to rewind.
C21_Witness ==
    /\ IsLinearKind
    /\ IsInitialized
    /\ m_allocatedSize > 0
    /\ numAllocs > 1
    /\ kind = "vmlinear" => m_committedSize > 0
    /\ Allocated(1, 1, TRUE) # 0
    /\ Allocated(1, 1, TRUE) # FirstAllocation(1, 1, TRUE)

\* C22: Initialize, operations that end with no live frame, Release, then
\* Initialize again yields an initialized allocator with allocated size 0 on
\* which allocations (the push, for the frame allocators) succeed as on a
\* freshly initialized one: every successful Initialize, the first one or one
\* that follows a Release, leaves the same fields and the same first result.
C22_InitializeAfterReleaseIsFresh ==
    [][ (~IsInitialized /\ IsInitialized')
            => /\ GetAllocatedSize' = 0
               /\ ~HasLiveFrame'
               /\ kind # "stack" =>
                      /\ m_allocatedSize' = 0
                      /\ m_lastAllocationOffset' = m_bufferSize'
                      /\ kind # "linear" => m_committedSize' = 0
               /\ IsLinearKind =>
                      \A in \in AllocateInputs, vmOk \in BOOLEAN :
                          Allocated(in[1], in[2], vmOk)' = FirstAllocation(in[1], in[2], vmOk)'
               /\ kind = "vmstack" =>
                      VMemStackAllocateImpl(FrameDescSize, FrameDescAlign, TRUE)'.ptr = m_buffer'
               /\ kind = "stack" =>
                      /\ m_liveSegment' = 0
                      /\ m_freeSegmentList' = 0
                      /\ m_lastAllocationOffset' = m_defaultSegmentSize'
                      /\ VirtualAlloc(segs') # 0 =>
                             StackAllocateImpl(FrameDescSize, FrameDescAlign)'.ptr
                                 = VirtualAlloc(segs') + SegDescSize ]_vars

\* The segmented allocator initialized again after frames were pushed, popped
\* and the allocator released: no live frame and empty lists again.
C22_Witness ==
    /\ kind = "stack"
    /\ IsInitialized
    /\ numFrames > 0
    /\ frames = << >>
    /\ tokens = << >>
    /\ m_liveSegment = 0
    /\ m_freeSegmentList = 0
    /\ GetAllocatedSize = 0

\* C23: Initialize on an initialized allocator changes nothing (allocations
\* and sizes are kept), and Initialize with invalid arguments (null buffer,
\* zero size, size beyond the size type, a VM buffer smaller than one page, a
\* VM stack-frame buffer that is not a multiple of the page size) leaves the
\* allocator uninitialized.
C23_InitializeIsRejected ==
    [][ /\ \A in \in LinearInputs :
               LinearInitialize(in[1], in[2])
                   => /\ IsInitialized => UNCHANGED vars
                      /\ (in[1] = 0 \/ in[2] = 0 \/ in[2] > SizeMax) => ~IsInitialized'
        /\ \A bufferSize \in VMemSizeInputs, vmOk \in BOOLEAN :
               VMemLinearInitialize(bufferSize, vmOk)
                   => /\ IsInitialized => UNCHANGED vars
                      /\ (bufferSize < PageSize \/ bufferSize > SizeMax) => ~IsInitialized'
        /\ \A bufferSize \in VMemSizeInputs, vmOk \in BOOLEAN :
               VMemStackInitialize(bufferSize, vmOk)
                   => /\ IsInitialized => UNCHANGED vars
                      /\ (bufferSize < PageSize \/ bufferSize % PageSize # 0
                              \/ bufferSize > SizeMax) => ~IsInitialized'
        /\ \A segmentSize \in SegmentSizeInputs :
               StackInitialize(segmentSize)
                   => /\ IsInitialized => UNCHANGED vars
                      /\ (segmentSize = 0 \/ segmentSize > SizeMax) => ~IsInitialized' ]_vars

\* An initialized VM stack-frame allocator with a live frame and allocations
\* in it: the state a second Initialize has to leave alone.
C23_Witness ==
    /\ kind = "vmstack"
    /\ IsInitialized
    /\ HasLiveFrame
    /\ allocs # {}
    /\ m_committedSize > 0
    /\ GetAllocatedSize > FrameDescSize

\* C24: a frame token pops its frame at most once.  Pop() on a token bound to
\* the topmost frame returns true and the token can no longer pop; Pop() on a
\* token that cannot pop does not reach the allocator; destroying a token that
\* can still pop performs that one pop, and HasLiveFrame is then what it was
\* before the push.
C24_TokenPopsAtMostOnce ==
    [][ /\ \A i \in 1 .. Len(tokens) :
               (Pop(i) /\ frames # << >> /\ IsTopmost(i))
                   => /\ Popped(i)
                      /\ Len(tokens') = Len(tokens) - 1
                      /\ \A j \in 1 .. Len(tokens') :
                             tokens'[j] = tokens[IF j < i THEN j ELSE j + 1]
                      /\ HasLiveFrame' <=> Len(frames) > 1
        /\ AllocatorFramePopEmpty => UNCHANGED << allocatorVars, tokens >> ]_vars

\* C25: after a frame token is moved from, by move construction or by move
\* assignment into any destination token (one bound to a live frame included),
\* the source token cannot pop: its CanPop() is false and its destruction pops
\* nothing.
C25_MovedFromTokenCannotPop ==
    [][ /\ \A i \in 1 .. Len(tokens) :
               AllocatorFrameMoveConstruct(i)
                   => ~CanPop(tokens'[i]) /\ ~Popped(i)'
        /\ \A i, j \in 1 .. Len(tokens) :
               (AllocatorFrameMoveAssign(i, j) /\ CanPop(tokens[i]))
                   => ~CanPop(tokens'[i]) /\ ~Popped(i)' ]_vars

\* C26: DecommitSlack(minSlack) on the VM stack-frame allocator returns false
\* and changes nothing when minSlack is not a multiple of the page size;
\* otherwise, when committed - allocated > minSlack and the decommit succeeds,
\* the committed size drops by a whole number of pages to the smallest value
\* with committed - allocated >= minSlack; and when the slack is already
\* <= minSlack it returns true and changes nothing.
C26_DecommitSlackKeepsMinSlack ==
    (kind = "vmstack" /\ IsInitialized)
        => \A minSlack \in SlackInputs, vmOk \in BOOLEAN :
               \A r \in { VMemStackDecommitSlackImpl(minSlack, vmOk) } :
                   /\ minSlack % PageSize # 0
                          => ~r.ok /\ r.committedSize = m_committedSize
                   /\ (minSlack % PageSize = 0 /\ m_committedSize - m_allocatedSize > minSlack
                           /\ vmOk)
                          => /\ r.ok
                             /\ r.committedSize <= m_committedSize
                             /\ (m_committedSize - r.committedSize) % PageSize = 0
                             /\ r.committedSize - m_allocatedSize >= minSlack
                             /\ r.committedSize - PageSize - m_allocatedSize < minSlack
                   /\ (minSlack % PageSize = 0 /\ m_committedSize - m_allocatedSize <= minSlack)
                          => r.ok /\ r.committedSize = m_committedSize

\* Two pages committed and nothing allocated after a pop: DecommitSlack(PageSize)
\* gives one page back and DecommitSlack(0) both.
C26_Witness ==
    /\ kind = "vmstack"
    /\ IsInitialized
    /\ m_allocatedSize = 0
    /\ m_committedSize = 2 * PageSize
    /\ VMemStackDecommitSlackImpl(PageSize, TRUE).committedSize = PageSize
    /\ VMemStackDecommitSlackImpl(0, TRUE).committedSize = 0

\* C27: Deallocate(ptr, size) changes nothing on any allocator: the allocated
\* size, the committed size and the address the next Allocate returns are what
\* they were before the call: every field of the allocator, every segment and
\* every FrameDescription, all that GetAllocatedSize and Allocate read, is
\* unchanged.
C27_DeallocateChangesNothing ==
    [][ (\E a \in OldAllocs : Deallocate(a)) => UNCHANGED allocatorVars ]_vars

\* A VM stack-frame allocator that owns an allocation the caller still holds,
\* with room after it: the state a Deallocate of that allocation acts on.
C27_Witness ==
    /\ kind = "vmstack"
    /\ HasLiveFrame
    /\ \E a \in allocs : a.ptr # 0 /\ a.size = 16 /\ IsOwnerOf(a.ptr)
    /\ Allocated(1, 1, TRUE) # 0

\* C28: on the VM stack-frame allocator the pages the OS layer holds committed
\* are exactly the prefix [buffer, buffer + committed size): DecommitSlack
\* decommits only pages of the committed but unallocated tail, so every byte of
\* [buffer, buffer + allocated size) lies on a committed page.
C28_CommittedPagesArePrefix ==
    (kind = "vmstack" /\ IsInitialized)
        => /\ pages = Pages(0, m_committedSize)
           /\ Pages(0, m_allocatedSize) \subseteq pages

\* C29: after every public operation of the segmented allocator, each segment
\* it holds (mapped and not yet released, or registered by the caller) is
\* reachable from exactly one of the live stack and the free list, the
\* free-list segments in front of the one FindFreeSegment picks included.
C29_SegmentOnExactlyOneList ==
    (kind = "stack" /\ StackIsInitialized)
        => \A segment \in OwnedSegments \cup registered :
               (segment \in SeqToSet(LiveSegments)) # (segment \in SeqToSet(FreeSegments))

C31_SegmentIsPickedInOrder ==
    (kind = "stack" /\ StackIsInitialized)
        => \A in \in { x \in AllocateInputs : x[1] # 0 /\ IsPowerOfTwo(x[2]) } :
               \A r \in { StackFindFreeSegment(in[1], in[2]) } :
                   IF m_liveSegment # 0
                      /\ StackCanSatisfyAllocation(segs, m_liveSegment, in[1], in[2])
                   THEN r.segment = m_liveSegment /\ r.segs = segs
                   ELSE IF \E k \in 1 .. Len(FreeSegments) :
                               StackCanSatisfyAllocation(segs, FreeSegments[k], in[1], in[2])
                   THEN \E k \in 1 .. Len(FreeSegments) :
                            /\ r.segment = FreeSegments[k]
                            /\ r.liveSegment = FreeSegments[k]
                            /\ StackCanSatisfyAllocation(segs, FreeSegments[k], in[1], in[2])
                            /\ \A j \in 1 .. (k - 1) :
                                   ~StackCanSatisfyAllocation(segs, FreeSegments[j], in[1], in[2])
                   ELSE r.segment = VirtualAlloc(segs)

\* The live segment has no room for 16 bytes, the first free segment neither,
\* and the second free segment has: FindFreeSegment has to pass over both.
C31_Witness ==
    /\ kind = "stack"
    /\ StackIsInitialized
    /\ m_liveSegment # 0
    /\ ~StackCanSatisfyAllocation(segs, m_liveSegment, 16, 8)
    /\ Len(FreeSegments) = 2
    /\ ~StackCanSatisfyAllocation(segs, FreeSegments[1], 16, 8)
    /\ StackCanSatisfyAllocation(segs, FreeSegments[2], 16, 8)
    /\ StackFindFreeSegment(16, 8).segment = FreeSegments[2]

\* C32: a fresh segment is created with size max(default segment size,
\* align_to(size + alignment + sizeof(SegmentDescription), alignment)) and its
\* usable region holds the allocation that triggered it: after the bump the
\* segment's allocatedSize <= segmentSize - sizeof(SegmentDescription), for
\* every valid size and alignment.
C32_FreshSegmentHoldsItsAllocation ==
    (kind = "stack" /\ StackIsInitialized)
        => \A in \in { x \in AllocateInputs : x[1] # 0 /\ IsPowerOfTwo(x[2]) } :
               \A f \in { StackFindFreeSegment(in[1], in[2]) } :
                   (f.segment # 0 /\ f.segment \notin DOMAIN segs)
                       => \A r \in { AllocateFromSegment(f, in[1], in[2]) } :
                              \A desiredSize \in { ((in[1] + in[2] + SegDescSize + in[2] - 1)
                                                        \div in[2]) * in[2] } :
                                  /\ r.segs[f.segment].segmentSize
                                       = (IF desiredSize > m_defaultSegmentSize
                                          THEN desiredSize ELSE m_defaultSegmentSize)
                                  /\ r.segs[f.segment].allocatedSize
                                       <= r.segs[f.segment].segmentSize - SegDescSize

\* C33: on the VM-backed allocators, whenever a successful Allocate or in-place
\* Reallocate raises allocated_size above committed_size, the new committed_size
\* is align_to(new allocated_size, 4096) and the pages committed are exactly
\* those from buffer + old committed_size up to it; when allocated_size stays
\* within committed_size, committed_size is kept and nothing is committed (the
\* call succeeds also when VirtualCommit would fail).
C33_CommitsExactlyTheMissingPages ==
    /\ [](IsVMemKind /\ IsInitialized
            => \A in \in AllocateInputs \cup LinearInputs, vmOk \in BOOLEAN :
                /\ \A r \in { IF kind = "vmlinear"
                               THEN VMemLinearAllocateImpl(in[1], in[2], vmOk)
                               ELSE VMemStackAllocateChecked(in[1], in[2], vmOk) } :
                       r.ptr # 0
                           => IF r.allocatedSize > m_committedSize
                              THEN /\ vmOk
                                   /\ r.committedSize
                                        = ((r.allocatedSize + PageSize - 1) \div PageSize)
                                            * PageSize
                              ELSE r.committedSize = m_committedSize
                /\ \A a \in OldAllocs :
                       \A r \in { IF kind = "vmlinear"
                                  THEN VMemLinearReallocateImpl(a.ptr, a.size, in[1], in[2], vmOk)
                                  ELSE VMemStackReallocateImpl(a.ptr, a.size, in[1], in[2], vmOk) } :
                           (r.ptr # 0 /\ r.ptr = a.ptr)
                               => IF r.allocatedSize > m_committedSize
                                  THEN /\ vmOk
                                       /\ r.committedSize
                                            = ((r.allocatedSize + PageSize - 1) \div PageSize)
                                                * PageSize
                                  ELSE r.committedSize = m_committedSize)
    /\ [][ (kind = "vmstack" /\ m_buffer' = m_buffer /\ m_buffer # 0)
              => IF m_committedSize' > m_committedSize
                 THEN pages' = pages \cup { k * PageSize :
                                              k \in (m_committedSize \div PageSize)
                                                    .. ((m_committedSize' \div PageSize) - 1) }
                 ELSE pages' \subseteq pages ]_vars

\* The spec's example at the model's buffer size: a VM linear allocator over two
\* pages has allocated 1 byte and committed one page; Allocate(4096, 1) commits
\* the second page, and Allocate(16, 1) commits nothing.
C33_Witness ==
    /\ kind = "vmlinear"
    /\ m_bufferSize = 2 * PageSize
    /\ m_allocatedSize = 1
    /\ m_committedSize = PageSize
    /\ VMemLinearAllocateImpl(PageSize, 1, TRUE).ptr = m_buffer + 1
    /\ VMemLinearAllocateImpl(PageSize, 1, TRUE).committedSize = 2 * PageSize
    /\ VMemLinearAllocateImpl(16, 1, FALSE).ptr = m_buffer + 1
    /\ VMemLinearAllocateImpl(16, 1, FALSE).committedSize = PageSize

C35_LiveAllocationsAreDisjoint ==
    /\ \A a, b \in { x \in allocs : x.live } :
           a # b => (a.ptr + a.size <= b.ptr \/ b.ptr + b.size <= a.ptr)
    /\ \A a \in { x \in allocs : x.live } :
           \A i \in 1 .. Len(frames) :
               a.ptr + a.size <= frames[i].addr \/ frames[i].addr + FrameDescSize <= a.ptr

\* C36: on the segmented allocator, Reallocate grows or shrinks in place only
\* when old_ptr is the most recent allocation of the current live segment; an
\* allocation of the live segment that is followed by another live allocation
\* is never resized in place, also after a pop made its segment live again.
C36_InPlaceOnlyForMostRecent ==
    (kind = "stack" /\ StackIsInitialized /\ m_liveSegment \in DOMAIN segs)
        => \A a \in OldAllocs \ { NullAlloc } :
               \A in \in { x \in AllocInputs : x[1] # 0 /\ IsPowerOfTwo(x[2]) } :
                   StackReallocateImpl(a.ptr, a.size, in[1], in[2]).ptr = a.ptr
                       => /\ IsPointerInBuffer(a.ptr, GetBuffer(m_liveSegment),
                                               segs[m_liveSegment].allocatedSize)
                          /\ \A b \in OldAllocs \ { NullAlloc } : b.ptr <= a.ptr

\* C37: in every reachable state of the segmented allocator the live frame is
\* null exactly when the stack of live segments is empty; so whenever Release
\* may proceed (no live frame) every segment is on the free list.
C37_NoLiveFrameIffNoLiveSegment ==
    (kind = "stack" /\ StackIsInitialized)
        => /\ (m_liveFrame = 0) <=> (m_liveSegment = 0)
           /\ m_liveFrame = 0
                 => \A segment \in OwnedSegments \cup registered :
                        segment \in SeqToSet(FreeSegments)

\* C38: every successfully pushed frame can be popped through its token: once
\* all frames pushed after it have been popped (it is the topmost live frame),
\* the caller holds an AllocatorFrame for it whose Pop() returns true, also when
\* an earlier Pop() on that token was made while the frame was not topmost and
\* returned false.
C38_TopmostFrameCanBePopped ==
    (IsFrameKind /\ IsInitialized /\ frames # << >>)
        => \E i \in 1 .. Len(tokens) : IsTopmost(i) /\ Popped(i)

\* C39: for every instantiation of the size type, one narrower than the pointer
\* width included, Allocate returns non-null only when the request really fits:
\* the new allocated_size is the old one + padding + size, computed without
\* truncation to the size type, and it is at most buffer_size.
C39_AllocateOnlyWhenItFits ==
    (IsTLinearAllocator /\ LinearIsInitialized)
        => \A in \in { x \in AllocateInputs : x[1] # 0 /\ IsPowerOfTwo(x[2]) } :
               \A r \in { LinearAllocateImpl(in[1], in[2]) } :
                   r.ptr # 0
                       => /\ r.allocatedSize
                               = m_allocatedSize + Padding(m_buffer + m_allocatedSize, in[2]) + in[1]
                          /\ r.allocatedSize <= m_bufferSize

\* C40: in-place Reallocate of the most recent allocation, with its true
\* old_size and new_size > old_size, succeeds only if the allocation's offset +
\* new_size <= buffer_size and never lowers allocated_size, also when
\* (new_size - old_size) + allocated_size wraps around the size type; only a
\* shrink lowers allocated_size, to the allocation's offset + new_size.
C40_InPlaceGrowthNeverLowersAllocatedSize ==
    (kind \in { "linear", "vmstack", "stack" } /\ IsInitialized
     /\ (kind = "stack" => m_liveSegment \in DOMAIN segs))
        => \A base \in { IF kind = "stack" THEN GetBuffer(m_liveSegment) ELSE m_buffer } :
           \A allocatedSize \in { IF kind = "stack" THEN segs[m_liveSegment].allocatedSize
                                   ELSE m_allocatedSize } :
           \A bufferSize \in { IF kind = "stack" THEN GetBufferSize(segs, m_liveSegment)
                                ELSE m_bufferSize } :
           \A a \in { x \in OldAllocs \ { NullAlloc } : x.ptr + x.size = base + allocatedSize } :
           \A in \in { x \in AllocateInputs \cup { << AddrMod - 1, 1 >> } :
                         x[1] # 0 /\ IsPowerOfTwo(x[2]) } :
           \A r \in { CASE kind = "linear" ->
                               LinearReallocateImpl(a.ptr, a.size, in[1], in[2]).allocatedSize
                          [] kind = "vmstack" ->
                               VMemStackReallocateImpl(a.ptr, a.size, in[1], in[2], TRUE).allocatedSize
                          [] kind = "stack" ->
                               StackReallocateImpl(a.ptr, a.size, in[1], in[2])
                                   .segs[m_liveSegment].allocatedSize } :
               Reallocated(a, in[1], in[2], TRUE) = a.ptr
                   => IF in[1] > a.size
                      THEN (a.ptr - base) + in[1] <= bufferSize /\ r >= allocatedSize
                      ELSE r = (a.ptr - base) + in[1]

====
